---- MODULE Spec2Model ----
(***************************************************************************)
(* ragujuary: a local catalog of "local file -> remote document" records,  *)
(* kept against a remote File Search Store by the upload pipeline          *)
(* (internal/gemini/uploader.go, cmd/upload.go) and by the reconciliation  *)
(* commands fetch and clean (runFetch, runClean).                          *)
(*                                                                         *)
(* One command runs at a time (one process per CLI invocation).  A command *)
(* loads the catalog file into its Manager, works on the in-memory copy    *)
(* and saves it at its end.  Inside the upload command the workers of      *)
(* Uploader.UploadFiles run concurrently; every access of a worker to      *)
(* shared state (the jobs channel, the Manager, the remote service, the    *)
(* counters of the progress callback) is a step of its own.                *)
(***************************************************************************)
EXTENDS Integers, Sequences, FiniteSets, Bags, TLC

\* ------------------------------------------------------------------ bounds

\* commands run one after another in a behaviour
MaxCommands == 2
\* files handed to UploadFiles, over all upload commands of a behaviour
MaxJobs == 2
\* changes the user makes to the local files
MaxEdits == 1
\* largest value of the --parallelism flag
MaxParallelism == 1
\* documents other clients have put into the remote store
MaxForeignDocs == 2

\* --------------------------------------------------------------- constants

\* NewUploader: a parallelism below 1 is replaced by this
DefaultParallelism == 5

\* ------------------------------------------------------------------ values

Paths == {"/a.md", "/b.md"}
Contents == {"x", "y"}
\* a path with no file, and a file that is listed but cannot be opened
NoFile == "absent"
Unreadable == "unreadable"
DiskStates == Contents \cup {NoFile, Unreadable}

\* the one store of the remote service, and the names a user can give for it
StoreID == "s1"
DisplayName == "docs"
PrefixedName == "fileSearchStores/s1"
StoreParams == {DisplayName, PrefixedName, StoreID}

\* strings.TrimPrefix(name, "fileSearchStores/")
TrimStorePrefix(name) ==
    IF name = PrefixedName THEN StoreID ELSE name

\* strings.Contains(name, "fileSearchStores/")
HasStorePrefix(name) == name = PrefixedName

\* the empty string, for identifiers and checksums (both are tuples here)
Empty == << >>

\* names the remote service gives out, for the upload of job i of command t:
\* a document and a long-running operation.  The service never repeats a name.
DocName(t, i) == <<"documents", t, i>>
OpName(t, i) == <<"operations", t, i>>

\* hex.EncodeToString(sha256(content)): the CLI's checksum of a content
HexChecksum(c) == <<"hex", c>>
\* "sha256:" + hex: the checksum the MCP upload attaches as custom metadata
PrefixedChecksum(c) == <<"sha256:", c>>

SizeOf(c) == IF c = "x" THEN 1 ELSE 2

\* fileutil.detectMimeType: by the extension of the path
DetectMimeType(path) ==
    IF path \in {"/a.md", "/b.md"} THEN "text/markdown" ELSE "application/octet-stream"

\* fileutil.CalculateChecksum: fails when the file cannot be opened
ChecksumFails(d) == d \in {NoFile, Unreadable}

CalculateChecksum(d) == HexChecksum(d)

\* os.Stat(path) reports that the path does not exist
StatNotExist(d) == d = NoFile

\* ----------------------------------------------------------- store.Manager

ZeroMeta ==
    [localPath |-> "", remoteID |-> Empty, remoteName |-> "", checksum |-> Empty,
     size |-> 0, uploadedAt |-> 0, mimeType |-> ""]

NoFiles == [p \in {} |-> ZeroMeta]

NewStore(name, now) ==
    [name |-> name, createdAt |-> now, updatedAt |-> now, files |-> NoFiles]

EmptyCatalog == [s \in {} |-> NewStore("", 0)]

\* A file name is a string of bytes; on Linux it need not be valid UTF-8.
\* Latin1Path stands for a name with the byte E9 (a Latin-1 e acute), and
\* ReplacedPath for the same name with U+FFFD (bytes EF BF BD) in its place.
Latin1Path == "/caf<E9>.md"

ReplacedPath == "/caf<U+FFFD>.md"

\* json.Marshal of a string: the text is coerced to valid UTF-8, each invalid
\* byte is replaced by U+FFFD
ToValidUTF8(str) == IF str = Latin1Path THEN ReplacedPath ELSE str

\* json.Marshal of a map writes the keys in the byte order of the strings
\* it was given, and json.Unmarshal keeps the last of the members that are
\* written with one key: E9 sorts before EF
SortsLast(keys) == IF ReplacedPath \in keys THEN ReplacedPath ELSE CHOOSE k \in keys : TRUE

\* json.Marshal of a FileMetadata.  The remote id, the checksum and the mime
\* type are ASCII; time.Time is modelled by its instant, which MarshalJSON
\* (RFC 3339 with nanoseconds) and UnmarshalJSON keep.
MarshalMeta(meta) ==
    [meta EXCEPT !.localPath = ToValidUTF8(@), !.remoteName = ToValidUTF8(@)]

\* json.Marshal of Store.Files, as json.Unmarshal reads the text back
MarshalFiles(fs) ==
    [k \in {ToValidUTF8(j) : j \in DOMAIN fs} |->
        MarshalMeta(fs[SortsLast({j \in DOMAIN fs : ToValidUTF8(j) = k})])]

MarshalStore(st) ==
    [st EXCEPT !.name = ToValidUTF8(@), !.files = MarshalFiles(@)]

\* Manager.Save: json.MarshalIndent(m.data), as json.Unmarshal reads it back
MarshalIndent(d) ==
    [k \in {ToValidUTF8(j) : j \in DOMAIN d} |->
        MarshalStore(d[SortsLast({j \in DOMAIN d : ToValidUTF8(j) = k})])]

\* the catalog file: what json.Unmarshal reads from it, or a file that does
\* not parse (a write that stopped half way)
CatalogFile(d) == [valid |-> TRUE, stores |-> MarshalIndent(d)]

Corrupt == [valid |-> FALSE, stores |-> EmptyCatalog]

GetOrCreateStore(d, name, now) ==
    IF name \in DOMAIN d THEN d ELSE (name :> NewStore(name, now)) @@ d

StoreExists(d, name) == name \in DOMAIN d

AddFile(d, name, meta, now) ==
    LET d1 == GetOrCreateStore(d, name, now)
    IN  [d1 EXCEPT ![name].files = (meta.localPath :> meta) @@ @,
                   ![name].updatedAt = now]

\* mutant: updated_at is set whenever the store exists
RemoveFileTouches(d, name, path, now) ==
    IF name \notin DOMAIN d THEN d
    ELSE [d EXCEPT ![name].files = [p \in (DOMAIN @) \ {path} |-> @[p]],
                   ![name].updatedAt = now]

RemoveFile(d, name, path, now) ==
    IF name \notin DOMAIN d THEN d
    ELSE IF path \notin DOMAIN d[name].files THEN d
    ELSE [d EXCEPT ![name].files = [p \in (DOMAIN @) \ {path} |-> @[p]],
                   ![name].updatedAt = now]

FileFound(d, name, path) ==
    /\ name \in DOMAIN d
    /\ path \in DOMAIN d[name].files

GetFileByPath(d, name, path) ==
    IF FileFound(d, name, path) THEN d[name].files[path] ELSE ZeroMeta

GetAllFiles(d, name) ==
    IF name \in DOMAIN d THEN {d[name].files[p] : p \in DOMAIN d[name].files} ELSE {}

\* ----------------------------------------------------------- gemini.Client

ZeroOp == [name |-> Empty, done |-> FALSE, error |-> FALSE, response |-> Empty]

\* custom metadata of a document: none, or the key "checksum"
NoMetadata == [k \in {} |-> Empty]

ChecksumMetadata(c) == [k \in {"checksum"} |-> c]

NewDoc(name, path, content, metadata, now) ==
    [name |-> name, displayName |-> path, content |-> content,
     customMetadata |-> metadata, sizeBytes |-> SizeOf(content),
     mimeType |-> DetectMimeType(path), createTime |-> now]

\* gemini.GetDocumentChecksum: the value under the key "checksum", "" if none
GetDocumentChecksum(doc) ==
    IF "checksum" \in DOMAIN doc.customMetadata
    THEN doc.customMetadata["checksum"]
    ELSE Empty

\* Client.ResolveStoreName: an API name is looked up directly, anything else is
\* searched among the display names of the stores
ResolveFound(param) ==
    IF HasStorePrefix(param) THEN TrimStorePrefix(param) = StoreID
    ELSE param = DisplayName

DoneOp(name, response) ==
    [name |-> name, done |-> TRUE, error |-> FALSE, response |-> response]

FailedOp(name) ==
    [name |-> name, done |-> TRUE, error |-> TRUE, response |-> Empty]

RunningOp(name) ==
    [name |-> name, done |-> FALSE, error |-> FALSE, response |-> Empty]

\* What UploadToFileSearchStore can return, the service naming the document
\* doc and the operation opn: an error, a document (the synchronous answer,
\* turned into a done operation named after the document), or an operation:
\* done with the document in its response, done with a response that names no
\* document, done with an error, or still running.
\* created: the document exists remotely from now on.
UploadOutcomes(doc, opn) ==
    { [err |-> TRUE, op |-> ZeroOp, created |-> FALSE],
      [err |-> FALSE, op |-> DoneOp(doc, Empty), created |-> TRUE],
      [err |-> FALSE, op |-> DoneOp(opn, doc), created |-> TRUE],
      [err |-> FALSE, op |-> DoneOp(opn, Empty), created |-> TRUE],
      [err |-> FALSE, op |-> FailedOp(opn), created |-> FALSE],
      [err |-> FALSE, op |-> RunningOp(opn), created |-> FALSE] }

\* What WaitForOperation can return: GetOperation fails (the operation may
\* still complete remotely), the operation is done with an error, or it is
\* done with a response that names the document or not.
WaitOutcomes(doc, opn) ==
    { [err |-> TRUE, op |-> ZeroOp, created |-> FALSE],
      [err |-> TRUE, op |-> ZeroOp, created |-> TRUE],
      [err |-> TRUE, op |-> FailedOp(opn), created |-> FALSE],
      [err |-> FALSE, op |-> DoneOp(opn, doc), created |-> TRUE],
      [err |-> FALSE, op |-> DoneOp(opn, Empty), created |-> TRUE] }

\* uploadFile: the document name taken from the operation
DocumentName(op) ==
    IF op.done /\ op.response # Empty THEN op.response ELSE op.name

\* DeleteDocument(id) can succeed only for a document that exists
DocExists(docs, id) == \E d \in docs : d.name = id

RemoveDoc(docs, id) == {d \in docs : d.name # id}

\* --------------------------------------------------------------- uploader

NewUploaderParallelism(p) == IF p < 1 THEN DefaultParallelism ELSE p

ZeroResult == [fileInfo |-> "", metadata |-> ZeroMeta, error |-> "", skipped |-> FALSE]

ResultKind(r) ==
    IF r.error # "" THEN "error" ELSE IF r.skipped THEN "skipped" ELSE "success"

NewMeta(path, id, checksum, content, now) ==
    [localPath |-> path, remoteID |-> id, remoteName |-> path, checksum |-> checksum,
     size |-> SizeOf(content), uploadedAt |-> now, mimeType |-> DetectMimeType(path)]

SeqsUpTo(S, n) == UNION {[1..k -> S] : k \in 0..n}

\* a worker of UploadFiles: where it stands, its job, and uploadFile's locals.
\* The workers are goroutines with no identity: they are kept as a bag.
ZeroWorker ==
    [pc |-> "idle", idx |-> 0, existing |-> ZeroMeta, found |-> FALSE,
     op |-> ZeroOp, tmp |-> 0, stuck |-> FALSE]

\* history of one job: the record uploadFile found, its remote calls, the
\* operation the upload ended with, whether the delete of the old document
\* failed, and the steps of uploadFile in the order they were taken
ZeroCalls ==
    [found |-> FALSE, seen |-> ZeroMeta, deletes |-> << >>, uploads |-> 0,
     deleteFirst |-> TRUE, gwErr |-> FALSE, op |-> ZeroOp, deleteErr |-> FALSE,
     steps |-> << >>]

ZeroCounters == [uploaded |-> 0, skipped |-> 0, failed |-> 0]

ZeroTally ==
    [added |-> 0, updated |-> 0, unchanged |-> 0, skipped |-> 0, notFound |-> 0,
     needsUpload |-> 0, deleted |-> 0, failed |-> 0, removed |-> 0, orphaned |-> 0]

NoExisting == [p \in {} |-> ZeroMeta]

\* runSync: an empty remoteByDisplayName
NoDocs == [p \in {} |-> Empty]

\* no signal has ended an upload
NotInterrupted == [happened |-> FALSE, polling |-> FALSE, committed |-> {}]

NoPrev == [p \in Paths |-> [ok |-> FALSE, checksum |-> Empty, uploads |-> 0]]

\* ------------------------------------------------------ fileutil.DiscoverFiles

\* A path is the sequence of its names; the tree has the directory "r" at
\* the top and, below it, entries named "a" and "b" down to MaxTreeDepth names.
MaxTreeDepth == 3

\* at most so many roots and so many patterns are given
MaxRoots == 2

MaxPatterns == 2

EntryNames == <<"a", "b">>

TopDir == <<"r">>

TreePaths ==
    UNION { {TopDir \o q : q \in [1..k -> {EntryNames[i] : i \in 1..Len(EntryNames)}]} :
            k \in 0..(MaxTreeDepth - 1) }

Parent(path) == SubSeq(path, 1, Len(path) - 1)

\* the file systems: an entry exists only in a directory, the top is a directory
Trees ==
    {t \in [TreePaths -> {"none", "file", "dir"}] :
        /\ t[TopDir] = "dir"
        /\ \A q \in TreePaths \ {TopDir} : t[q] # "none" => t[Parent(q)] = "dir"}

NoTree == [q \in {} |-> "none"]

\* the patterns a user may give: a name anywhere in the path, a name at the
\* end of the path, and one that regexp.Compile rejects
AnyPatterns == {"a", "b", "a$", "b$", "["}

\* regexp.Compile(pattern) returns an error
CompileFails(pattern) == pattern = "["

\* re.MatchString(path) for a compiled pattern: the pattern is searched in the
\* whole path, the names above the entry included
MatchString(pattern, path) ==
    IF pattern = "a" THEN \E i \in 1..Len(path) : path[i] = "a"
    ELSE IF pattern = "b" THEN \E i \in 1..Len(path) : path[i] = "b"
    ELSE IF pattern = "a$" THEN path[Len(path)] = "a"
    ELSE IF pattern = "b$" THEN path[Len(path)] = "b"
    ELSE FALSE

\* DiscoverFiles, lines 66-70 and 75-79: some pattern matches the path
MatchesAny(patterns, path) ==
    \E i \in 1..Len(patterns) : MatchString(patterns[i], path)

NotWalked == [files |-> << >>, err |-> "", entered |-> {}, called |-> FALSE]

\* the result of walking no entry
NoWalk == [files |-> << >>, entered |-> {}]

\* the entries of a directory, in lexical order (filepath.Walk sorts them)
Entries(t, path) ==
    IF Len(path) >= MaxTreeDepth THEN << >>
    ELSE SelectSeq([i \in 1..Len(EntryNames) |-> Append(path, EntryNames[i])],
                   LAMBDA q : t[q] # "none")

RECURSIVE WalkEntries(_, _, _, _)
RECURSIVE Walk(_, _, _)

\* mutant: an excluded directory is walked, its files are filtered one by one
WalkNoSkipDir(t, path, patterns) ==
    IF t[path] = "dir"
    THEN LET below == WalkEntries(t, Entries(t, path), patterns, 1)
         IN  [files |-> below.files, entered |-> {path} \cup below.entered]
    ELSE IF MatchesAny(patterns, path) THEN NoWalk
    ELSE [files |-> <<path>>, entered |-> {}]

\* filepath.Walk with the callback of DiscoverFiles (lines 58-88) on an entry
\* that exists: a directory that matches is skipped with all below it, a file
\* that matches is left out, any other file is appended
Walk(t, path, patterns) ==
    IF t[path] = "dir"
    THEN IF MatchesAny(patterns, path) THEN NoWalk
         ELSE LET below == WalkEntries(t, Entries(t, path), patterns, 1)
              IN  [files |-> below.files, entered |-> {path} \cup below.entered]
    ELSE IF MatchesAny(patterns, path) THEN NoWalk
    ELSE [files |-> <<path>>, entered |-> {}]

\* filepath.Walk over the entries of one directory, from the i-th on
WalkEntries(t, entries, patterns, i) ==
    IF i > Len(entries) THEN NoWalk
    ELSE LET first == Walk(t, entries[i], patterns)
             rest == WalkEntries(t, entries, patterns, i + 1)
         IN  [files |-> first.files \o rest.files,
              entered |-> first.entered \cup rest.entered]

RECURSIVE WalkRoots(_, _, _, _)

\* DiscoverFiles, lines 52-93: the loop over the roots.  A root that does not
\* exist makes the walk fail, and DiscoverFiles returns no file at all.
WalkRoots(t, roots, patterns, i) ==
    IF i > Len(roots) THEN [files |-> << >>, err |-> "", entered |-> {}]
    ELSE IF t[roots[i]] = "none"
    THEN [files |-> << >>, err |-> "failed to walk directory", entered |-> {}]
    ELSE LET first == Walk(t, roots[i], patterns)
             rest == WalkRoots(t, roots, patterns, i + 1)
         IN  [files |-> IF rest.err = "" THEN first.files \o rest.files ELSE << >>,
              err |-> rest.err,
              entered |-> first.entered \cup rest.entered]

\* fileutil.DiscoverFiles: the files, the error, and (history) the directories
\* whose entries the walk visited
DiscoverFiles(t, roots, patterns) ==
    IF \E i \in 1..Len(patterns) : CompileFails(patterns[i])
    THEN [files |-> << >>, err |-> "invalid exclude pattern", entered |-> {},
          called |-> TRUE]
    ELSE LET r == WalkRoots(t, roots, patterns, 1)
         IN  [files |-> r.files, err |-> r.err, entered |-> r.entered, called |-> TRUE]

\* ------------------------------------------------------- mcp.APIKeyMiddleware

\* http.StatusUnauthorized
StatusUnauthorized == 401

\* the keys a flag, a header or a query parameter may carry; "" is none
Keys == {"", "k1", "k2"}

\* an Authorization header, split after its seventh byte
AuthHeaders ==
    {[prefix |-> "", rest |-> ""], [prefix |-> "Bearer ", rest |-> ""]}
        \cup [prefix : {"Bearer ", "bearer ", "Basic k"}, rest : Keys \ {""}]

\* a request: the X-API-Key header, the Authorization header, the api_key
\* query parameter
Requests == [xAPIKey : Keys, authorization : AuthHeaders, apiKeyParam : Keys]

NoRequest == [xAPIKey |-> "", authorization |-> [prefix |-> "", rest |-> ""], apiKeyParam |-> ""]

NoServer == [state |-> "none", apiKey |-> "", transport |-> ""]

NotServed == [request |-> NoRequest, status |-> 0, called |-> FALSE, any |-> FALSE]

\* mutant: the query parameter is looked at first
ProvidedKeyQueryFirst(r) ==
    IF r.apiKeyParam # "" THEN r.apiKeyParam
    ELSE IF r.xAPIKey # "" THEN r.xAPIKey
    ELSE IF r.authorization.prefix = "Bearer " /\ r.authorization.rest # ""
    THEN r.authorization.rest
    ELSE ""

\* APIKeyMiddleware, lines 11-22: providedKey
ProvidedKey(r) ==
    IF r.xAPIKey # "" THEN r.xAPIKey
    ELSE IF r.authorization.prefix = "Bearer " /\ r.authorization.rest # ""
    THEN r.authorization.rest
    ELSE r.apiKeyParam

\* ------------------------------------------------- mcp.Server.handleUpload

\* calls of the upload tool
MaxRequests == 2

\* file_content as it is sent: the text itself, or the text in base64
\* ("eA==" is x, "eQ==" is y), or a string that is neither
FileContents == {"", "x", "y", "eA==", "eQ=="}

UploadInputs ==
    [fileName : Paths \cup {""}, fileContent : FileContents, isBase64 : BOOLEAN,
     storeName : StoreParams \cup {""}]

NoInput == [fileName |-> "", fileContent |-> "", isBase64 |-> FALSE, storeName |-> ""]

\* base64.StdEncoding.DecodeString
DecodeFails(str) == str \notin {"", "eA==", "eQ=="}

DecodeString(str) ==
    IF str = "eA==" THEN "x" ELSE IF str = "eQ==" THEN "y" ELSE ""

\* handleUpload, lines 40-49: the bytes that are uploaded
DecodedContent(input) ==
    IF input.isBase64 THEN DecodeString(input.fileContent) ELSE input.fileContent

\* handleUpload, lines 21-49: the error it returns before the checksum, "" if none
UploadInputError(input) ==
    IF input.fileName = "" THEN "file_name is required"
    ELSE IF input.fileContent = "" THEN "file_content is required"
    ELSE IF input.storeName = "" THEN "store_name is required"
    ELSE IF ~ResolveFound(input.storeName) THEN "store not found"
    ELSE IF input.isBase64 /\ DecodeFails(input.fileContent)
    THEN "failed to decode base64 content"
    ELSE ""

ZeroDoc ==
    [name |-> Empty, displayName |-> "", content |-> "", customMetadata |-> NoMetadata,
     sizeBytes |-> 0, mimeType |-> "", createTime |-> 0]

\* gemini.FindDocumentByDisplayName: the listing fails, or it has no document
\* of that display name, or it returns one of them (the one listed first)
FindDocumentByDisplayName(ds, name) ==
    LET matches == {d \in ds : d.displayName = name}
    IN  {[err |-> TRUE, found |-> FALSE, doc |-> ZeroDoc]} \cup
        IF matches = {}
        THEN {[err |-> FALSE, found |-> FALSE, doc |-> ZeroDoc]}
        ELSE {[err |-> FALSE, found |-> TRUE, doc |-> d] : d \in matches}

\* mutant: a document of another checksum is left in the store
AfterFindNoDelete(found, existingChecksum, checksum) ==
    IF found /\ existingChecksum = checksum THEN "skip" ELSE "upload"

\* mutant: the content is uploaded whatever the store holds
AfterFindAlwaysUpload(found, existingChecksum, checksum) == "upload"

\* handleUpload, lines 62-80: what follows the search for the existing document
AfterFind(found, existingChecksum, checksum) ==
    IF ~found THEN "upload"
    ELSE IF existingChecksum = checksum THEN "skip"
    ELSE "delete"

\* history: one remote call of handleUpload that changes the store
DeleteCall(id, ok) ==
    [call |-> "DeleteDocument", name |-> id, metadata |-> NoMetadata, ok |-> ok]

UploadCall(metadata, ok) ==
    [call |-> "UploadContentWithMetadata", name |-> Empty, metadata |-> metadata,
     ok |-> ok]

\* the upload tool has not been called.  History: updates, the calls so far
\* that replaced a document; origin, the documents of the store at the first
\* call; failed, some remote call so far has failed; last, per file name the
\* checksum of the content of the last call that reported success
NotCalled ==
    [pc |-> "none", requests |-> 0, input |-> NoInput, content |-> "",
     checksum |-> Empty, lookupErr |-> FALSE, found |-> FALSE, existingDoc |-> ZeroDoc,
     before |-> {}, calls |-> << >>, op |-> ZeroOp, err |-> "", success |-> FALSE,
     outputError |-> FALSE, text |-> "", updates |-> 0,
     origin |-> {}, failed |-> FALSE, last |-> [p \in Paths |-> Empty]]

VARIABLES
    disk,        \* the local files: path -> content, NoFile or Unreadable
    remote,      \* the documents of the remote store
    saved,       \* the catalog file
    clock,       \* time.Now(): the number of the command that runs
    phase,       \* "idle", the running command, or "done" (its outcome stands)
    lastCmd,     \* the command that ran last
    ret,         \* what the command returned ("" is nil)
    data,        \* Manager.data of the running command
    store,       \* upload: the local store name the Uploader writes to
    files,       \* upload: the discovered files (their paths)
    jobs,        \* UploadFiles: the jobs channel
    closed,      \* UploadFiles: the channel is closed
    workers,     \* UploadFiles: the bag of the workers' local states
    results,     \* UploadFiles: results[idx]
    counters,    \* runUpload: uploaded, skipped, failed
    startData,   \* history: Manager.data when UploadFiles started
    calls,       \* history: per job, the remote calls made for it
    processed,   \* history: per job, how often a worker finished it
    used,        \* bound: files handed to UploadFiles so far
    edits,       \* bound: changes made to the local files so far
    deletedIds,  \* history: documents the upload pipeline deleted so far
    prev,        \* history: per path, the upload run before this command
    startRemote, \* history: the remote documents when the command started
    docs,        \* fetch: the listed documents not looked at yet
    existingFiles, \* fetch: the records of the store when the loop started
    force,       \* fetch: --force
    toDelete,    \* clean: the records not processed yet
    tally,       \* fetch, clean, sync: the counters of the summary
    log,         \* history: what the fetch, clean or sync loop did, per iteration
    storeName,   \* the --store flag of the running command
    uploadedAs,  \* history: the --store flag of the last upload that saved
    response,    \* clean: the answer read at the prompt, "" if it was not asked
    localFiles,  \* sync: the records of the store when the loops started
    todo,        \* sync: the records the running loop has not reached yet
    remoteByDisplayName, \* sync: display name -> the listed document
    tree,        \* DiscoverFiles: the file system, path -> "dir", "file" or "none"
    dirs,        \* DiscoverFiles: the roots given
    excludePatterns, \* DiscoverFiles: the exclusion patterns given
    serveAPIKey, \* serve: the --serve-api-key flag
    serveEnv,    \* serve: the environment variable RAGUJUARY_SERVE_API_KEY
    httpServer,  \* serve: the HTTP server, and the key its middleware holds
    served,      \* history: the last request, and what the middleware did with it
    interrupted, \* history: the upload that a signal ended, as it stood then
    discovered,  \* DiscoverFiles: what it returned, and what the walk entered
    parallelism, \* upload: the --parallelism flag, as NewUploader got it
    tool,        \* MCP: the running or last call of the upload tool
    hangs        \* the service may leave an upload operation running for ever

vars ==
    <<disk, remote, saved, clock, phase, lastCmd, ret, data, store, files, jobs,
      closed, workers, results, counters, startData, calls, processed, deletedIds,
      prev, used, edits, startRemote, docs, existingFiles, force, toDelete, tally, log,
      storeName, uploadedAs, response, localFiles, todo, remoteByDisplayName,
      tree, dirs, excludePatterns, discovered, serveAPIKey, serveEnv, httpServer,
      served, interrupted, parallelism, tool, hangs>>

\* what only the fetch and clean commands use
reconVars == <<docs, existingFiles, force, toDelete, tally, log>>

\* the flags and answers a command reads
cmdVars == <<storeName, uploadedAs, response, parallelism>>

\* the locals of runSync
syncVars == <<localFiles, todo, remoteByDisplayName>>

\* what no command but its own touches
\* the arguments and the result of DiscoverFiles
discoverVars == <<tree, dirs, excludePatterns, discovered>>

\* the serve command over HTTP
serveVars == <<serveAPIKey, serveEnv, httpServer, served>>

\* the upload tool of the MCP server
toolVars == <<tool>>

auxVars == <<syncVars, discoverVars, serveVars, interrupted, toolVars, hangs>>

\* DiscoverFiles has not been called
NotDiscovering ==
    /\ tree = NoTree
    /\ dirs = << >>
    /\ excludePatterns = << >>
    /\ discovered = NotWalked

\* no command has run yet: the state of the commands
NoCommandYet ==
    /\ interrupted = NotInterrupted
    /\ used = 0
    /\ edits = 0
    /\ clock = 0
    /\ phase = "idle"
    /\ lastCmd = ""
    /\ ret = ""
    /\ data = EmptyCatalog
    /\ store = ""
    /\ files = << >>
    /\ jobs = << >>
    /\ closed = FALSE
    /\ workers = EmptyBag
    /\ results = << >>
    /\ counters = ZeroCounters
    /\ startData = EmptyCatalog
    /\ calls = << >>
    /\ processed = << >>
    /\ deletedIds = {}
    /\ prev = NoPrev
    /\ startRemote = {}
    /\ docs = {}
    /\ existingFiles = NoExisting
    /\ force = FALSE
    /\ toDelete = {}
    /\ tally = ZeroTally
    /\ log = << >>
    /\ storeName = ""
    /\ uploadedAs = ""
    /\ response = ""
    /\ localFiles = {}
    /\ todo = {}
    /\ remoteByDisplayName = NoDocs
    /\ parallelism = 0
    /\ tool = NotCalled

\* no command has run yet, and both files exist
InitCore ==
    /\ disk = [p \in Paths |-> IF p = "/a.md" THEN "x" ELSE "y"]
    /\ NoCommandYet

\* the serve command has not been given
NotServing ==
    /\ serveAPIKey = ""
    /\ serveEnv = ""
    /\ httpServer = NoServer
    /\ served = NotServed

\* every upload operation of the service completes, sooner or later
ServiceCompletes == hangs = FALSE

\* no command has run yet
InitRun ==
    /\ InitCore
    /\ NotDiscovering
    /\ NotServing
    /\ ServiceCompletes

\* no catalog file yet
InitLocal ==
    /\ InitRun
    /\ saved = CatalogFile(EmptyCatalog)

\* a new store: nothing uploaded yet, no catalog file
Init ==
    /\ InitLocal
    /\ remote = {}

CanStart == phase \in {"idle", "done"} /\ clock < MaxCommands

\* history: the upload run that just ended, per path that was one job of it
\* and whose record the run committed and saved
RunSummary ==
    [p \in Paths |->
        LET js == {i \in 1..Len(results) : files[i] = p}
        IN  IF /\ phase = "done"
               /\ lastCmd = "upload"
               /\ ret \in {"", "some uploads failed"}
               /\ Cardinality(js) = 1
            THEN LET i == CHOOSE j \in js : TRUE
                 IN  [ok |-> ResultKind(results[i]) = "success",
                      checksum |-> results[i].metadata.checksum,
                      uploads |-> calls[i].uploads]
            ELSE IF phase = "done" THEN NoPrev[p] ELSE prev[p]]

\* the process has exited: nothing of it is left but the catalog file
ProcessGone ==
    /\ ret' = ""
    /\ data' = EmptyCatalog
    /\ store' = ""
    /\ files' = << >>
    /\ jobs' = << >>
    /\ closed' = FALSE
    /\ workers' = EmptyBag
    /\ results' = << >>
    /\ counters' = ZeroCounters
    /\ startData' = EmptyCatalog
    /\ calls' = << >>
    /\ processed' = << >>
    /\ startRemote' = {}
    /\ docs' = {}
    /\ existingFiles' = NoExisting
    /\ force' = FALSE
    /\ toDelete' = {}
    /\ tally' = ZeroTally
    /\ log' = << >>
    /\ storeName' = ""
    /\ response' = ""
    /\ parallelism' = 0

\* the user changes a file between two commands
EditFile ==
    /\ UNCHANGED <<auxVars, uploadedAs>>
    /\ phase \in {"idle", "done"}
    /\ edits < MaxEdits
    /\ edits' = edits + 1
    /\ \E p \in Paths, d \in DiskStates :
        /\ disk[p] # d
        /\ disk' = [disk EXCEPT ![p] = d]
    /\ phase' = "idle"
    /\ prev' = RunSummary
    /\ ProcessGone
    /\ UNCHANGED <<remote, saved, clock, lastCmd, deletedIds, used>>

\* ---------------------------------------------------------------- runUpload

\* mutant: the documents of the store are not looked at
UploadPrecheckBlind(param, create, listErr) ==
    IF ~saved.valid THEN "failed to initialize store manager"
    ELSE IF ~ResolveFound(param)
    THEN IF create THEN "failed to create File Search Store" ELSE "store not found"
    ELSE ""

\* runUpload up to the guard on an empty local cache: the error it returns
\* there, "" if it goes on.  The remote service holds one store: creating
\* another one (--create with a name that does not resolve) is refused.
UploadPrecheck(param, create, listErr) ==
    IF ~saved.valid THEN "failed to initialize store manager"
    ELSE IF ~ResolveFound(param)
    THEN IF create THEN "failed to create File Search Store" ELSE "store not found"
    ELSE IF /\ ~create
            /\ GetAllFiles(saved.stores, TrimStorePrefix(PrefixedName)) = {}
            /\ ~listErr
            /\ remote # {}
    THEN "local cache is empty"
    ELSE ""

\* runUpload returns before UploadFiles
UploadReturn(err) ==
    /\ ret' = err
    /\ phase' = "done"
    /\ store' = ""
    /\ files' = << >>
    /\ jobs' = << >>
    /\ closed' = FALSE
    /\ workers' = EmptyBag
    /\ results' = << >>
    /\ counters' = ZeroCounters
    /\ startData' = EmptyCatalog
    /\ calls' = << >>
    /\ processed' = << >>

\* mutant: the loop that starts the workers runs once more
StartWorkersOneMore(n) == [w \in {ZeroWorker} |-> n + 1]

\* n workers, all idle
StartWorkers(n) == [w \in {ZeroWorker} |-> n]

\* runUpload up to the start of the workers of UploadFiles.  The files are
\* those DiscoverFiles found under the roots, one entry per root that
\* contains the file: a path is listed twice when a root is given twice or
\* lies inside another.
UploadStartWith(param, create, dryRun, listErr, flag, fl) ==
    /\ UNCHANGED <<auxVars, uploadedAs>>
    /\ response' = ""
    /\ CanStart
    /\ clock' = clock + 1
    /\ lastCmd' = "upload"
    /\ prev' = RunSummary
    /\ startRemote' = remote
    /\ docs' = {}
    /\ existingFiles' = NoExisting
    /\ force' = FALSE
    /\ toDelete' = {}
    /\ tally' = ZeroTally
    /\ log' = << >>
    /\ UNCHANGED <<disk, remote, saved, deletedIds, edits>>
    /\  LET err == UploadPrecheck(param, create, listErr)
            localStoreName == TrimStorePrefix(PrefixedName)
        IN  /\ storeName' = param
            /\ IF err # ""
               THEN /\ UploadReturn(err)
                    /\ data' = saved.stores
                    /\ used' = used
                    /\ parallelism' = 0
               ELSE /\ data' = GetOrCreateStore(saved.stores, localStoreName, clock')
                    /\ IF fl = << >> \/ dryRun
                       THEN UploadReturn("") /\ used' = used /\ parallelism' = 0
                       ELSE /\ phase' = "upload"
                            /\ parallelism' = flag
                            /\ used' = used + Len(fl)
                            /\ ret' = ""
                            /\ store' = localStoreName
                            /\ files' = fl
                            /\ jobs' = << >>
                            /\ closed' = FALSE
                            /\ workers' = StartWorkers(NewUploaderParallelism(flag))
                            /\ results' = [i \in 1..Len(fl) |-> ZeroResult]
                            /\ counters' = ZeroCounters
                            /\ startData' = data'
                            /\ calls' = [i \in 1..Len(fl) |-> ZeroCalls]
                            /\ processed' = [i \in 1..Len(fl) |-> 0]

\* the flags and arguments of an upload command
UploadStart ==
    /\ CanStart
    /\ \E param \in StoreParams, create \in BOOLEAN, dryRun \in BOOLEAN,
          listErr \in BOOLEAN, flag \in 0..MaxParallelism,
          fl \in SeqsUpTo({p \in Paths : disk[p] # NoFile}, MaxJobs - used) :
        UploadStartWith(param, create, dryRun, listErr, flag, fl)

\* UploadFiles: for i := range files { jobs <- i }; close(jobs).  The channel
\* holds len(files) jobs, so no send blocks: the loop is one step.
SendJobs ==
    /\ UNCHANGED <<auxVars, cmdVars>>
    /\ phase = "upload"
    /\ ~closed
    /\ jobs' = [i \in 1..Len(files) |-> i]
    /\ closed' = TRUE
    /\ UNCHANGED <<disk, remote, saved, clock, phase, lastCmd, ret, data, store,
                   files, workers, results, counters, startData, calls, processed,
                   deletedIds, prev, used, edits, startRemote, reconVars>>

\* the worker in state ws goes on in state ws2
Step(ws, ws2) == (workers (-) SetToBag({ws})) (+) SetToBag({ws2})

\* mutant: the job stays in the channel for the next worker
ReceiveNoPop(ws) ==
    /\ UNCHANGED <<auxVars, cmdVars>>
    /\ phase = "upload"
    /\ ws.pc = "idle"
    /\ jobs # << >>
    /\ workers' = Step(ws, [ZeroWorker EXCEPT !.pc = "lookup", !.idx = Head(jobs)])
    /\ UNCHANGED <<disk, remote, saved, clock, lastCmd, ret, data, store, files, jobs,
                   closed, results, counters, startData, calls, processed, phase,
                   deletedIds, prev, used, edits, startRemote, reconVars>>

\* worker: idx := <-jobs
Receive(ws) ==
    /\ UNCHANGED <<auxVars, cmdVars>>
    /\ phase = "upload"
    /\ ws.pc = "idle"
    /\ jobs # << >>
    /\ workers' = Step(ws, [ZeroWorker EXCEPT !.pc = "lookup", !.idx = Head(jobs)])
    /\ jobs' = Tail(jobs)
    /\ UNCHANGED <<disk, remote, saved, clock, phase, lastCmd, ret, data, store,
                   files, closed, results, counters, startData, calls, processed,
                   deletedIds, prev, used, edits, startRemote, reconVars>>

\* mutant: the worker ends without wg.Done()
WorkerExitNoDone(ws) ==
    /\ UNCHANGED <<auxVars, cmdVars>>
    /\ phase = "upload"
    /\ ws.pc = "idle"
    /\ jobs = << >>
    /\ closed
    /\ workers' = Step(ws, [ws EXCEPT !.pc = "gone"])
    /\ UNCHANGED <<disk, remote, saved, clock, phase, lastCmd, ret, data, store,
                   files, jobs, closed, results, counters, startData, calls,
                   processed, deletedIds, prev, used, edits, startRemote, reconVars>>

\* worker: the range over the closed, drained channel ends; wg.Done()
WorkerExit(ws) ==
    /\ UNCHANGED <<auxVars, cmdVars>>
    /\ phase = "upload"
    /\ ws.pc = "idle"
    /\ jobs = << >>
    /\ closed
    /\ workers' = Step(ws, [ws EXCEPT !.pc = "exit"])
    /\ UNCHANGED <<disk, remote, saved, clock, phase, lastCmd, ret, data, store,
                   files, jobs, closed, results, counters, startData, calls,
                   processed, deletedIds, prev, used, edits, startRemote, reconVars>>

\* worker: uploadFile returned res for job i; results[idx] = result
StoreResult(ws, i, res) ==
    /\ results' = [results EXCEPT ![i] = res]
    /\ processed' = [processed EXCEPT ![i] = @ + 1]
    /\ workers' = Step(ws, [ZeroWorker EXCEPT !.pc = "cbRead", !.idx = i])

ErrorResult(path, msg) ==
    [fileInfo |-> path, metadata |-> ZeroMeta, error |-> msg, skipped |-> FALSE]

SkippedResult(path, existing) ==
    [fileInfo |-> path, metadata |-> existing, error |-> "", skipped |-> TRUE]

SuccessResult(path, meta) ==
    [fileInfo |-> path, metadata |-> meta, error |-> "", skipped |-> FALSE]

\* mutant: the checksum of the existing record is not compared
NextAfterLookupNoSkip(found, existing, checksum) ==
    IF found /\ existing.remoteID # Empty THEN "delete" ELSE "upload"

\* mutant: the old document is not deleted before the upload
NextAfterLookupNoDelete(found, existing, checksum) ==
    IF found /\ existing.checksum = checksum THEN "skip" ELSE "upload"

\* uploadFile, lines 95-110: what follows the lookup of the existing record
NextAfterLookup(found, existing, checksum) ==
    IF found /\ existing.checksum = checksum THEN "skip"
    ELSE IF found /\ existing.remoteID # Empty THEN "delete"
    ELSE "upload"

\* uploadFile, lines 87-110: CalculateChecksum and GetFileByPath
Lookup(ws) ==
    /\ UNCHANGED <<auxVars, cmdVars>>
    /\ phase = "upload"
    /\ ws.pc = "lookup"
    /\ LET i == ws.idx
           path == files[i]
           found == FileFound(data, store, path)
           existing == GetFileByPath(data, store, path)
       IN  IF ChecksumFails(disk[path])
           THEN StoreResult(ws, i, ErrorResult(path, "failed to calculate checksum"))
           ELSE LET checksum == CalculateChecksum(disk[path])
                    next == NextAfterLookup(found, existing, checksum)
                IN  IF next = "skip"
                    THEN StoreResult(ws, i, SkippedResult(path, existing))
                    ELSE /\ workers' = Step(ws, [ws EXCEPT !.pc = next,
                                                           !.existing = existing,
                                                           !.found = found])
                         /\ UNCHANGED <<results, processed>>
    /\ calls' = IF ChecksumFails(disk[files[ws.idx]])
                THEN [calls EXCEPT ![ws.idx].steps = Append(@, "checksum")]
                ELSE [calls EXCEPT ![ws.idx].found = FileFound(data, store, files[ws.idx]),
                                   ![ws.idx].seen = GetFileByPath(data, store, files[ws.idx]),
                                   ![ws.idx].steps = @ \o <<"checksum", "lookup">>]
    /\ UNCHANGED <<disk, remote, saved, clock, phase, lastCmd, ret, data, store,
                   files, jobs, closed, counters, startData, deletedIds, prev, used,
                   edits, startRemote, reconVars>>

\* mutant: a failed delete of the old document ends the file with an error
AfterDeleteFatal(ok) == IF ok THEN "upload" ELSE "failed to delete"

\* uploadFile, lines 106-110: the error of DeleteDocument is printed as a
\* warning, and the upload follows
AfterDelete(ok) == "upload"

\* uploadFile, lines 104-110: DeleteDocument(existing.RemoteID), best effort
DeleteOld(ws) ==
    /\ UNCHANGED <<auxVars, cmdVars>>
    /\ phase = "upload"
    /\ ws.pc = "delete"
    /\ LET i == ws.idx
           id == ws.existing.remoteID
       IN  /\ \E ok \in BOOLEAN :
                /\ ok => DocExists(remote, id)
                /\ remote' = IF ok THEN RemoveDoc(remote, id) ELSE remote
                /\ deletedIds' = IF ok THEN deletedIds \cup {id} ELSE deletedIds
                /\ calls' = [calls EXCEPT ![i].deletes = Append(@, id),
                                          ![i].deleteFirst = calls[i].uploads = 0,
                                          ![i].deleteErr = ~ok,
                                          ![i].steps = Append(@, "delete")]
                /\ IF AfterDelete(ok) = "upload"
                   THEN /\ workers' = Step(ws, [ws EXCEPT !.pc = "upload"])
                        /\ UNCHANGED <<results, processed>>
                   ELSE StoreResult(ws, i, ErrorResult(files[i], AfterDelete(ok)))
    /\ UNCHANGED <<disk, saved, clock, phase, lastCmd, ret, data, store, files,
                   jobs, closed, counters, startData, prev, used, edits, startRemote,
                   reconVars>>

\* mutant: SetWaitForDone(false) was called on the Uploader
WaitForDoneUnset == FALSE

\* Uploader.waitForDone: set by NewUploader, and SetWaitForDone has no caller
WaitForDone == TRUE

\* uploadFile, lines 133-157: the record of a finished upload is committed
Commit(ws, i, op) ==
    LET path == files[i]
        meta == NewMeta(path, DocumentName(op), CalculateChecksum(disk[path]),
                        disk[path], clock)
    IN  /\ data' = AddFile(data, store, meta, clock)
        /\ StoreResult(ws, i, SuccessResult(path, meta))

\* mutant: a failed upload drops the record of the path
OnUploadErrorRemoves(d, name, path) == RemoveFile(d, name, path, clock)

\* uploadFile, lines 119-122 and 127-130: on an error of the upload or of the
\* wait the result is returned and the store manager is not called
OnUploadError(d, name, path) == d

\* uploadFile, lines 112-131: UploadToFileSearchStore
Upload(ws) ==
    /\ UNCHANGED <<auxVars, cmdVars>>
    /\ phase = "upload"
    /\ ws.pc = "upload"
    /\ LET i == ws.idx
           path == files[i]
       IN  \E o \in UploadOutcomes(DocName(clock, i), OpName(clock, i)) :
            /\ remote' = IF o.created
                         THEN remote \cup {NewDoc(DocName(clock, i), path, disk[path],
                                                  NoMetadata, clock)}
                         ELSE remote
            /\ calls' = [calls EXCEPT ![i].uploads = @ + 1, ![i].gwErr = o.err,
                                      ![i].op = o.op,
                                      ![i].steps = @ \o <<"upload">> \o
                                          IF ~o.err /\ ~(WaitForDone /\ ~o.op.done)
                                          THEN <<"commit">> ELSE << >>]
            /\ IF o.err
               THEN /\ StoreResult(ws, i, ErrorResult(path, "failed to upload"))
                    /\ data' = OnUploadError(data, store, path)
               ELSE IF WaitForDone /\ ~o.op.done
               THEN /\ \E never \in IF hangs THEN BOOLEAN ELSE {FALSE} :
                        workers' = Step(ws, [ws EXCEPT !.pc = "poll", !.op = o.op,
                                                       !.stuck = never])
                    /\ UNCHANGED <<data, results, processed>>
               ELSE Commit(ws, i, o.op)
    /\ UNCHANGED <<disk, saved, clock, phase, lastCmd, ret, store, files, jobs,
                   closed, counters, startData, deletedIds, prev, used, edits, startRemote, reconVars>>

\* uploadFile, lines 125-131: WaitForOperation returns.  It has no limit on
\* the number of polls: for an operation that never completes (stuck) it
\* does not return.
Poll(ws) ==
    /\ UNCHANGED <<auxVars, cmdVars>>
    /\ phase = "upload"
    /\ ws.pc = "poll"
    /\ ~ws.stuck
    /\ LET i == ws.idx
           path == files[i]
       IN  \E o \in WaitOutcomes(DocName(clock, i), ws.op.name) :
            /\ remote' = IF o.created
                         THEN remote \cup {NewDoc(DocName(clock, i), path, disk[path],
                                                  NoMetadata, clock)}
                         ELSE remote
            /\ calls' = [calls EXCEPT ![i].gwErr = o.err, ![i].op = o.op,
                                      ![i].steps = @ \o <<"poll">> \o
                                          IF ~o.err THEN <<"commit">> ELSE << >>]
            /\ IF o.err
               THEN /\ StoreResult(ws, i, ErrorResult(path, "upload operation failed"))
                    /\ data' = OnUploadError(data, store, path)
               ELSE Commit(ws, i, o.op)
    /\ UNCHANGED <<disk, saved, clock, phase, lastCmd, ret, store, files, jobs,
                   closed, counters, startData, deletedIds, prev, used, edits, startRemote, reconVars>>

\* runUpload's progress callback: the counter it increments for a result
CounterOf(res) ==
    IF res.error # "" THEN "failed" ELSE IF res.skipped THEN "skipped" ELSE "uploaded"

\* the callback's counter++ reads the counter ...
CallbackRead(ws) ==
    /\ UNCHANGED <<auxVars, cmdVars>>
    /\ phase = "upload"
    /\ ws.pc = "cbRead"
    /\ workers' = Step(ws, [ws EXCEPT !.pc = "cbWrite",
                                      !.tmp = counters[CounterOf(results[ws.idx])]])
    /\ UNCHANGED <<disk, remote, saved, clock, phase, lastCmd, ret, data, store,
                   files, jobs, closed, results, counters, startData, calls,
                   processed, deletedIds, prev, used, edits, startRemote, reconVars>>

\* ... and writes it back, with no lock held in between
CallbackWrite(ws) ==
    /\ UNCHANGED <<auxVars, cmdVars>>
    /\ phase = "upload"
    /\ ws.pc = "cbWrite"
    /\ counters' = [counters EXCEPT ![CounterOf(results[ws.idx])] = ws.tmp + 1]
    /\ workers' = Step(ws, ZeroWorker)
    /\ UNCHANGED <<disk, remote, saved, clock, phase, lastCmd, ret, data, store,
                   files, jobs, closed, results, startData, calls, processed,
                   deletedIds, prev, used, edits, startRemote, reconVars>>

\* mutant: the results are not looked at
NeverError(rs) == FALSE

AnyError(rs) == \E i \in 1..Len(rs) : rs[i].error # ""

\* mutant: UploadFiles returns without wg.Wait()
AllJoinedNoWait == TRUE

\* UploadFiles, line 77: wg.Wait() returns when every worker has called Done
AllJoined == \A ws \in BagToSet(workers) : ws.pc = "exit"

\* runUpload, lines 136-154: wg.Wait() returned; Save, then the exit status
UploadFinish ==
    /\ phase = "upload"
    /\ closed
    /\ AllJoined
    /\ \E saveOk \in BOOLEAN :
        IF saveOk
        THEN /\ saved' = CatalogFile(data)
             /\ ret' = IF AnyError(results) THEN "some uploads failed" ELSE ""
        ELSE /\ saved' \in {saved, Corrupt}
             /\ ret' = "failed to save store data"
    /\ phase' = "done"
    /\ uploadedAs' = IF ret' = "failed to save store data" THEN uploadedAs ELSE storeName
    /\ UNCHANGED <<disk, remote, clock, lastCmd, data, store, files, jobs, closed,
                   workers, results, counters, startData, calls, processed,
                   deletedIds, prev, used, edits, startRemote, reconVars,
                   auxVars, storeName, response, parallelism>>

\* ----------------------------------------------------------------- runFetch

\* Client.ResolveStoreName: the API name of the store, without the prefix
ResolveStoreName(param) == IF ResolveFound(param) THEN StoreID ELSE ""

\* runFetch, lines 49-69: the error it returns before the loop, "" if none
FetchPrecheck(param, listErr) ==
    IF ~saved.valid THEN "failed to initialize store manager"
    ELSE IF ~ResolveFound(param) THEN "store not found"
    ELSE IF listErr THEN "failed to list documents"
    ELSE ""

\* a command that uses no Uploader
NoUploader ==
    /\ files' = << >>
    /\ jobs' = << >>
    /\ closed' = FALSE
    /\ workers' = EmptyBag
    /\ results' = << >>
    /\ counters' = ZeroCounters
    /\ calls' = << >>
    /\ processed' = << >>

\* runFetch, lines 80-83: the records of the store, by path
ExistingFiles(d, name) ==
    [p \in {f.localPath : f \in GetAllFiles(d, name)} |-> GetFileByPath(d, name, p)]

\* runFetch, lines 105-114: the record made from a remote document
FetchMeta(doc) ==
    [localPath |-> doc.displayName, remoteID |-> doc.name,
     remoteName |-> doc.displayName, checksum |-> GetDocumentChecksum(doc),
     size |-> doc.sizeBytes, uploadedAt |-> doc.createTime, mimeType |-> doc.mimeType]

\* mutant: a differing checksum is overwritten without --force
OnMismatchOverwrites(forced, meta) ==
    [category |-> "updated", write |-> TRUE, meta |-> meta]

\* runFetch, lines 172-186: the checksum of the document differs from the file's
OnMismatch(forced, meta) ==
    IF forced
    THEN [category |-> "updated", write |-> TRUE, meta |-> meta]
    ELSE [category |-> "skipped", write |-> FALSE, meta |-> meta]

\* mutant: the record of a document without checksum keeps the empty checksum
LocalChecksumDropped(meta, localChecksum) == meta

\* runFetch, line 135: the document carries no checksum and the record takes
\* the checksum of the file
WithLocalChecksum(meta, localChecksum) == [meta EXCEPT !.checksum = localChecksum]

\* mutant: the record of a locally changed file is overwritten
OnLocalChangeOverwrites(localMeta) ==
    [category |-> "updated", write |-> TRUE, meta |-> localMeta]

\* runFetch, lines 146-151: the document carries no checksum and the file
\* differs from the cached checksum
OnLocalChange(localMeta) ==
    [category |-> "needsUpload", write |-> FALSE, meta |-> localMeta]

\* runFetch, lines 116-186: what the loop does with one document: the counter
\* it increments, whether it calls AddFile, and with which record
FetchDecision(doc, existing, d, forced) ==
    LET meta == FetchMeta(doc)
        remoteChecksum == GetDocumentChecksum(doc)
        existsInCache == doc.displayName \in DOMAIN existing
        old == IF existsInCache THEN existing[doc.displayName] ELSE ZeroMeta
        localChecksum == CalculateChecksum(d)
        localMeta == WithLocalChecksum(meta, localChecksum)
    IN  IF existsInCache /\ old.checksum = remoteChecksum /\ old.remoteID = doc.name
        THEN [category |-> "unchanged", write |-> FALSE, meta |-> meta]
        ELSE IF ChecksumFails(d)
        THEN [category |-> "notFound", write |-> TRUE, meta |-> meta]
        ELSE IF remoteChecksum = Empty
        THEN IF existsInCache
             THEN IF old.checksum = localChecksum
                  THEN IF old.remoteID # doc.name
                       THEN [category |-> "updated", write |-> TRUE, meta |-> localMeta]
                       ELSE [category |-> "unchanged", write |-> FALSE, meta |-> localMeta]
                  ELSE OnLocalChange(localMeta)
             ELSE [category |-> "added", write |-> TRUE, meta |-> localMeta]
        ELSE IF localChecksum = remoteChecksum
        THEN [category |-> IF existsInCache THEN "updated" ELSE "added",
              write |-> TRUE, meta |-> meta]
        ELSE OnMismatch(forced, meta)

\* mutant: a skipped document is left out of the counts
CountedButSkipped(t, category) ==
    IF category = "skipped" THEN t ELSE [t EXCEPT ![category] = @ + 1]

\* runFetch: the one counter a document increments (added++, updated++,
\* unchanged++, skipped++, notFound++, needsUpload++)
Counted(t, category) == [t EXCEPT ![category] = @ + 1]

\* runFetch up to the loop over the documents
FetchStart ==
    /\ UNCHANGED <<auxVars, uploadedAs>>
    /\ response' = ""
    /\ parallelism' = 0
    /\ CanStart
    /\ clock' = clock + 1
    /\ lastCmd' = "fetch"
    /\ prev' = RunSummary
    /\ startRemote' = remote
    /\ NoUploader
    /\ toDelete' = {}
    /\ tally' = ZeroTally
    /\ log' = << >>
    /\ UNCHANGED <<disk, remote, saved, deletedIds, used, edits>>
    /\ \E param \in StoreParams, f \in BOOLEAN, listErr \in BOOLEAN :
        LET err == FetchPrecheck(param, listErr)
            resolvedName == ResolveStoreName(param)
        IN  /\ ret' = err
            /\ storeName' = param
            /\ force' = f
            /\ IF err # "" \/ remote = {}
               THEN /\ phase' = "done"
                    /\ data' = saved.stores
                    /\ store' = ""
                    /\ docs' = {}
                    /\ existingFiles' = NoExisting
                    /\ startData' = EmptyCatalog
               ELSE /\ phase' = "fetch"
                    /\ data' = GetOrCreateStore(saved.stores, resolvedName, clock')
                    /\ store' = resolvedName
                    /\ docs' = remote
                    /\ existingFiles' = ExistingFiles(data', resolvedName)
                    /\ startData' = data'

\* runFetch, lines 87-187: one iteration of the loop
FetchDoc ==
    /\ UNCHANGED <<auxVars, cmdVars>>
    /\ phase = "fetch"
    /\ \E doc \in docs :
        LET r == FetchDecision(doc, existingFiles, disk[doc.displayName], force)
            path == doc.displayName
        IN  /\ docs' = docs \ {doc}
            /\ data' = IF r.write THEN AddFile(data, store, r.meta, clock) ELSE data
            /\ tally' = Counted(tally, r.category)
            /\ log' = Append(log, [doc |-> doc, category |-> r.category,
                                   hadRecord |-> FileFound(data, store, path),
                                   before |-> GetFileByPath(data, store, path),
                                   hasRecord |-> FileFound(data', store, path),
                                   after |-> GetFileByPath(data', store, path)])
    /\ NoUploader
    /\ UNCHANGED <<disk, remote, saved, clock, phase, lastCmd, ret, store, startData,
                   deletedIds, prev, used, edits, startRemote, existingFiles, force,
                   toDelete>>

\* Manager.Save at the end of a command: the file holds the catalog, or the
\* write failed and the file is as before or cut short
SaveCatalog ==
    \E saveOk \in BOOLEAN :
        IF saveOk
        THEN /\ saved' = CatalogFile(data)
             /\ ret' = ""
        ELSE /\ saved' \in {saved, Corrupt}
             /\ ret' = "failed to save store data"

\* mutant: fetch removes the documents whose file is not on disk
FetchFinishPruning ==
    /\ UNCHANGED <<auxVars, cmdVars>>
    /\ phase = "fetch"
    /\ docs = {}
    /\ SaveCatalog
    /\ phase' = "done"
    /\ remote' = {d \in remote : ~StatNotExist(disk[d.displayName])}
    /\ UNCHANGED <<disk, clock, lastCmd, data, store, files, jobs, closed,
                   workers, results, counters, startData, calls, processed,
                   deletedIds, prev, used, edits, startRemote, reconVars>>

\* runFetch, lines 189-208
FetchFinish ==
    /\ UNCHANGED <<auxVars, cmdVars>>
    /\ phase = "fetch"
    /\ docs = {}
    /\ SaveCatalog
    /\ phase' = "done"
    /\ UNCHANGED <<disk, remote, clock, lastCmd, data, store, files, jobs, closed,
                   workers, results, counters, startData, calls, processed,
                   deletedIds, prev, used, edits, startRemote, reconVars>>

\* ----------------------------------------------------------------- runClean

\* mutant: the record is removed whether the remote delete succeeded or not
RemoveAnyway(d, name, path, ok, now) == RemoveFile(d, name, path, now)

\* runClean, lines 443-449, DeleteFilesByPattern, lines 194-200, deleteByIDs,
\* lines 127-138: the record is removed only after DeleteDocument returned nil
RemoveIfDeleted(d, name, path, ok, now) ==
    IF ok THEN RemoveFile(d, name, path, now) ELSE d

\* mutant: every record is taken, whether its file exists or not
AllFiles(fs) == fs

\* runClean, lines 416-420: the records whose file does not exist on disk
FilesMissingOnDisk(fs) == {f \in fs : StatNotExist(disk[f.localPath])}

\* what the user may type at the prompt of clean
AnswerLines == {"y", "yes", "Y", "n", "", " y", "yes please"}

\* fmt.Scanln(&response): the first space-separated word of the line, "" if
\* the line has none (the error Scanln returns is not looked at)
Scanln(line) ==
    IF line \in {"y", " y"} THEN "y"
    ELSE IF line \in {"yes", "yes please"} THEN "yes"
    ELSE line

\* mutant: only "n" is taken as a no
ConfirmedUnlessNo(answer) == answer # "n"

\* runClean, line 436
Confirmed(answer) == answer = "y" \/ answer = "yes"

\* runClean up to the loop over the records to delete.  The store is looked up
\* in the catalog under the name as the user gave it.
CleanStart ==
    /\ UNCHANGED <<auxVars, uploadedAs>>
    /\ CanStart
    /\ clock' = clock + 1
    /\ lastCmd' = "clean"
    /\ prev' = RunSummary
    /\ startRemote' = remote
    /\ NoUploader
    /\ docs' = {}
    /\ existingFiles' = NoExisting
    /\ tally' = ZeroTally
    /\ log' = << >>
    /\ data' = saved.stores
    /\ UNCHANGED <<disk, remote, saved, deletedIds, used, edits>>
    /\ \E param \in StoreParams, forceDelete \in BOOLEAN, line \in AnswerLines :
        LET err == IF ~saved.valid THEN "failed to initialize store manager"
                   ELSE IF ~StoreExists(saved.stores, param) THEN "store not found"
                   ELSE ""
            missing == FilesMissingOnDisk(GetAllFiles(saved.stores, param))
            asked == err = "" /\ missing # {} /\ ~forceDelete
        IN  /\ ret' = err
            /\ storeName' = param
            /\ force' = forceDelete
            /\ response' = IF asked THEN Scanln(line) ELSE ""
            /\ parallelism' = 0
            /\ IF err # "" \/ missing = {} \/ (asked /\ ~Confirmed(response'))
               THEN /\ phase' = "done"
                    /\ store' = ""
                    /\ toDelete' = {}
                    /\ startData' = EmptyCatalog
               ELSE /\ phase' = "clean"
                    /\ store' = param
                    /\ toDelete' = missing
                    /\ startData' = data'

\* runClean, lines 442-452: one iteration of the loop
CleanDelete ==
    /\ UNCHANGED <<auxVars, cmdVars>>
    /\ phase = "clean"
    /\ \E f \in toDelete, ok \in BOOLEAN :
        /\ ok => DocExists(remote, f.remoteID)
        /\ toDelete' = toDelete \ {f}
        /\ remote' = IF ok THEN RemoveDoc(remote, f.remoteID) ELSE remote
        /\ data' = RemoveIfDeleted(data, store, f.localPath, ok, clock)
        /\ tally' = [tally EXCEPT ![IF ok THEN "deleted" ELSE "failed"] = @ + 1]
        /\ log' = Append(log, [record |-> f, ok |-> ok])
    /\ NoUploader
    /\ UNCHANGED <<disk, saved, clock, phase, lastCmd, ret, store, startData,
                   deletedIds, prev, used, edits, startRemote, docs, existingFiles,
                   force>>

\* runClean, lines 454-463: Save, the summary, return nil
CleanFinish ==
    /\ UNCHANGED <<auxVars, cmdVars>>
    /\ phase = "clean"
    /\ toDelete = {}
    /\ SaveCatalog
    /\ phase' = "done"
    /\ UNCHANGED <<disk, remote, clock, lastCmd, data, store, files, jobs, closed,
                   workers, results, counters, startData, calls, processed,
                   deletedIds, prev, used, edits, startRemote, reconVars>>

\* ---------------------------------------------------------------- runDelete

\* --id arguments of one delete command
MaxIDs == 2

\* an --id argument: the full name of a document, or the part after
\* "documents/" of it
DeleteArgs(names) == [full : BOOLEAN, doc : names]

\* deleteByIDs, lines 93-103: a full name is taken as it is, a short id is put
\* behind the resolved store name, which carries the prefix
\* "fileSearchStores/" only if ResolveStoreName failed on a name that had it
ExpandID(resolvedName, arg) ==
    IF arg.full \/ HasStorePrefix(resolvedName)
    THEN arg.doc
    ELSE <<"unprefixed", resolvedName, arg.doc>>

\* the documents a user can name: those of the store and those of the records
KnownDocs ==
    {d.name : d \in remote} \cup {f.remoteID : f \in GetAllFiles(saved.stores, StoreID)}

\* what the user may type at the prompt of delete
DeleteAnswers == {"y", "Y", "n"}

\* strings.TrimSpace(strings.ToLower(line))
ReadAnswer(line) == IF line = "Y" THEN "y" ELSE line

\* the patterns given to delete
DeletePatterns == {"a", "md", "["}

\* re.MatchString(path) for the paths "/a.md" and "/b.md"
PathMatches(pattern, path) ==
    IF pattern = "md" THEN TRUE
    ELSE IF pattern = "a" THEN path = "/a.md"
    ELSE FALSE

\* FilterFilesByPattern on the records of a store
MatchedFiles(fs, pattern) == {f \in fs : PathMatches(pattern, f.localPath)}

\* runDelete with --id or --pattern, up to the loop over the documents.
\* deleteByIDs looks the records up under the resolved store name, or under
\* the name as given when ResolveStoreName fails; deleteFilesByPattern under
\* the name as given.
DeleteStart ==
    /\ UNCHANGED <<auxVars, uploadedAs>>
    /\ CanStart
    /\ clock' = clock + 1
    /\ prev' = RunSummary
    /\ startRemote' = remote
    /\ NoUploader
    /\ docs' = {}
    /\ existingFiles' = NoExisting
    /\ tally' = ZeroTally
    /\ log' = << >>
    /\ data' = saved.stores
    /\ parallelism' = 0
    /\ UNCHANGED <<disk, remote, saved, deletedIds, used, edits>>
    /\ \E param \in StoreParams, forceDelete \in BOOLEAN :
        /\ storeName' = param
        /\ force' = forceDelete
        /\ response' \in IF forceDelete THEN {""}
                         ELSE {ReadAnswer(line) : line \in DeleteAnswers}
        /\ \/ \E resolveErr \in BOOLEAN,
                 deleteIDs \in SeqsUpTo(DeleteArgs(KnownDocs), MaxIDs) \ {<< >>} :
                LET resolvedName ==
                        IF ResolveFound(param) /\ ~resolveErr THEN StoreID ELSE param
                    fullIDs == [i \in 1..Len(deleteIDs) |->
                                    ExpandID(resolvedName, deleteIDs[i])]
                IN  /\ lastCmd' = "delete --id"
                    /\ IF ~saved.valid \/ (~forceDelete /\ ~Confirmed(response'))
                       THEN /\ ret' = IF ~saved.valid
                                      THEN "failed to initialize store manager" ELSE ""
                            /\ phase' = "done"
                            /\ store' = ""
                            /\ toDelete' = {}
                            /\ startData' = EmptyCatalog
                       ELSE /\ ret' = ""
                            /\ phase' = "deleteIDs"
                            /\ store' = resolvedName
                            /\ toDelete' = {[k |-> i, id |-> fullIDs[i]] :
                                                i \in 1..Len(fullIDs)}
                            /\ startData' = data'
           \/ \E pattern \in DeletePatterns :
                LET fs == GetAllFiles(saved.stores, param)
                    err == IF ~saved.valid THEN "failed to initialize store manager"
                           ELSE IF ~StoreExists(saved.stores, param)
                           THEN "store not found in local cache"
                           ELSE IF fs # {} /\ CompileFails(pattern) THEN "invalid pattern"
                           ELSE ""
                    matched == IF err = "" THEN MatchedFiles(fs, pattern) ELSE {}
                IN  /\ lastCmd' = "delete --pattern"
                    /\ ret' = err
                    /\ IF matched = {} \/ (~forceDelete /\ ~Confirmed(response'))
                       THEN /\ phase' = "done"
                            /\ store' = ""
                            /\ toDelete' = {}
                            /\ startData' = EmptyCatalog
                       ELSE /\ phase' = "deletePattern"
                            /\ store' = param
                            /\ toDelete' = matched
                            /\ startData' = data'

\* Uploader.DeleteFilesByPattern, lines 188-202: one iteration of the loop
DeleteByPattern ==
    /\ UNCHANGED <<auxVars, cmdVars>>
    /\ phase = "deletePattern"
    /\ \E f \in toDelete, ok \in BOOLEAN :
        /\ ok => DocExists(remote, f.remoteID)
        /\ toDelete' = toDelete \ {f}
        /\ remote' = IF ok THEN RemoveDoc(remote, f.remoteID) ELSE remote
        /\ data' = RemoveIfDeleted(data, store, f.localPath, ok, clock)
        /\ tally' = [tally EXCEPT ![IF ok THEN "deleted" ELSE "failed"] = @ + 1]
        /\ log' = Append(log, [record |-> f, ok |-> ok])
    /\ NoUploader
    /\ UNCHANGED <<disk, saved, clock, phase, lastCmd, ret, store, startData,
                   deletedIds, prev, used, edits, startRemote, docs, existingFiles,
                   force>>

\* deleteByIDs, lines 127-140: one iteration of the loop.  remoteIDToPath
\* holds one path for a remote id.
DeleteByID ==
    /\ UNCHANGED <<auxVars, cmdVars>>
    /\ phase = "deleteIDs"
    /\ \E item \in toDelete, ok \in BOOLEAN :
        LET paths == {f.localPath : f \in {g \in GetAllFiles(startData, store) :
                                              g.remoteID = item.id}}
        IN  /\ \A other \in toDelete : item.k <= other.k
            /\ ok => DocExists(remote, item.id)
            /\ toDelete' = toDelete \ {item}
            /\ remote' = IF ok THEN RemoveDoc(remote, item.id) ELSE remote
            /\ tally' = [tally EXCEPT ![IF ok THEN "deleted" ELSE "failed"] = @ + 1]
            /\ \E localPath \in IF paths = {} THEN {""} ELSE paths :
                /\ data' = IF localPath # ""
                           THEN RemoveIfDeleted(data, store, localPath, ok, clock)
                           ELSE data
                /\ log' = Append(log, [id |-> item.id, ok |-> ok,
                                       localPath |-> localPath])
    /\ NoUploader
    /\ UNCHANGED <<disk, saved, clock, phase, lastCmd, ret, store, startData,
                   deletedIds, prev, used, edits, startRemote, docs, existingFiles,
                   force>>

\* deleteByIDs, lines 142-154, deleteFilesByPattern, lines 260-279: Save and
\* the error for failed deletions
DeleteFinish ==
    /\ UNCHANGED <<auxVars, cmdVars>>
    /\ phase \in {"deletePattern", "deleteIDs"}
    /\ toDelete = {}
    /\ \E saveOk \in BOOLEAN :
        IF saveOk
        THEN /\ saved' = CatalogFile(data)
             /\ ret' = IF tally["failed"] > 0 THEN "some deletions failed" ELSE ""
        ELSE /\ saved' \in {saved, Corrupt}
             /\ ret' = "failed to save store data"
    /\ phase' = "done"
    /\ UNCHANGED <<disk, remote, clock, lastCmd, data, store, files, jobs, closed,
                   workers, results, counters, startData, calls, processed,
                   deletedIds, prev, used, edits, startRemote, reconVars>>

\* ------------------------------------------------------------------ runSync

\* Client.GetFileSearchStore and Client.ListDocuments: the name is given the
\* prefix "fileSearchStores/" if it has none
EnsurePrefix(name) == IF HasStorePrefix(name) THEN name ELSE "fileSearchStores/" \o name

\* Client.GetFileSearchStore: the store is looked up by its API name only
GetFileSearchStoreFound(name) == EnsurePrefix(name) = PrefixedName

\* runSync, lines 286-311: the error it returns before the loops, "" if none
SyncPrecheck(param, listErr) ==
    IF ~saved.valid THEN "failed to initialize store manager"
    ELSE IF ~GetFileSearchStoreFound(param) THEN "File Search Store not found"
    ELSE IF listErr THEN "failed to list remote documents"
    ELSE ""

\* runSync, lines 314-319: the map from display name to document.  Of the
\* documents with one display name the map keeps the one listed last, and
\* the order of the list is the service's.
RemoteByDisplayName(ds) ==
    {m \in [{d.displayName : d \in ds} -> ds] : \A n \in DOMAIN m : m[n].displayName = n}

\* runSync, lines 316-319: remoteByName[id] exists
RemoteByNameHas(ds, id) == \E d \in ds : d.name = id

\* mutant: a record is an orphan as soon as no document has its display name
IsOrphanByDisplayNameOnly(f, byDisplayName, ds) ==
    f.localPath \notin DOMAIN byDisplayName

\* runSync, lines 330-332: the record matches no document, by display name or id
IsOrphan(f, byDisplayName, ds) ==
    /\ f.localPath \notin DOMAIN byDisplayName
    /\ ~RemoteByNameHas(ds, f.remoteID)

\* mutant: the corrected record is built anew from the document
CorrectedFromDocument(f, doc) ==
    [f EXCEPT !.remoteID = doc.name, !.size = doc.sizeBytes, !.uploadedAt = doc.createTime]

\* runSync, lines 345-346: f.RemoteID = doc.Name
Corrected(f, doc) == [f EXCEPT !.remoteID = doc.name]

\* runSync up to the loops over the local records.  The catalog is read and
\* written under the --store flag as given.
SyncStart ==
    /\ UNCHANGED <<discoverVars, serveVars, interrupted, toolVars, hangs>>
    /\ CanStart
    /\ clock' = clock + 1
    /\ lastCmd' = "sync"
    /\ prev' = RunSummary
    /\ startRemote' = remote
    /\ NoUploader
    /\ existingFiles' = NoExisting
    /\ force' = FALSE
    /\ toDelete' = {}
    /\ tally' = ZeroTally
    /\ log' = << >>
    /\ response' = ""
    /\ parallelism' = 0
    /\ UNCHANGED <<disk, remote, saved, deletedIds, used, edits, uploadedAs>>
    /\ \E param \in StoreParams, listErr \in BOOLEAN :
        LET err == SyncPrecheck(param, listErr)
        IN  /\ ret' = err
            /\ storeName' = param
            /\ IF err # ""
               THEN /\ phase' = "done"
                    /\ data' = saved.stores
                    /\ store' = ""
                    /\ docs' = {}
                    /\ startData' = EmptyCatalog
                    /\ localFiles' = {}
                    /\ todo' = {}
                    /\ remoteByDisplayName' = NoDocs
               ELSE /\ data' = GetOrCreateStore(saved.stores, param, clock')
                    /\ store' = param
                    /\ docs' = remote
                    /\ startData' = data'
                    /\ localFiles' = GetAllFiles(data', param)
                    /\ todo' = localFiles'
                    /\ remoteByDisplayName' \in RemoteByDisplayName(remote)
                    /\ phase' = IF localFiles' = {} THEN "syncIds" ELSE "syncOrphans"

\* runSync, lines 329-339: one iteration of the loop that removes the orphans;
\* after the last one the second loop starts over the same slice
SyncRemoveOrphan ==
    /\ UNCHANGED <<discoverVars, serveVars, interrupted, toolVars, hangs>>
    /\ phase = "syncOrphans"
    /\ \E f \in todo :
        LET orphan == IsOrphan(f, remoteByDisplayName, docs)
        IN  /\ data' = IF orphan THEN RemoveFile(data, store, f.localPath, clock) ELSE data
            /\ tally' = IF orphan THEN [tally EXCEPT !.removed = @ + 1] ELSE tally
            /\ log' = Append(log, [loop |-> "orphans", record |-> f, acted |-> orphan])
            /\ todo' = IF todo = {f} THEN localFiles ELSE todo \ {f}
            /\ phase' = IF todo = {f} THEN "syncIds" ELSE phase
    /\ NoUploader
    /\ UNCHANGED <<disk, remote, saved, clock, lastCmd, ret, store, startData,
                   deletedIds, prev, used, edits, startRemote, docs, existingFiles,
                   force, toDelete, cmdVars, localFiles, remoteByDisplayName>>

\* runSync, lines 342-350: one iteration of the loop that corrects the ids
SyncCorrectID ==
    /\ UNCHANGED <<discoverVars, serveVars, interrupted, toolVars, hangs>>
    /\ phase = "syncIds"
    /\ \E f \in todo :
        LET exists == f.localPath \in DOMAIN remoteByDisplayName
            stale == exists /\ f.remoteID # remoteByDisplayName[f.localPath].name
        IN  /\ data' = IF stale
                       THEN AddFile(data, store,
                                    Corrected(f, remoteByDisplayName[f.localPath]), clock)
                       ELSE data
            /\ tally' = IF stale THEN [tally EXCEPT !.updated = @ + 1] ELSE tally
            /\ log' = Append(log, [loop |-> "ids", record |-> f, acted |-> stale])
            /\ todo' = todo \ {f}
    /\ NoUploader
    /\ UNCHANGED <<disk, remote, saved, clock, phase, lastCmd, ret, store, startData,
                   deletedIds, prev, used, edits, startRemote, docs, existingFiles,
                   force, toDelete, cmdVars, localFiles, remoteByDisplayName>>

\* runSync, lines 352-373: the count of the records whose file is gone, Save,
\* the summary; the locals are gone when it returns
SyncFinish ==
    /\ UNCHANGED <<discoverVars, serveVars, interrupted, toolVars, hangs>>
    /\ phase = "syncIds"
    /\ todo = {}
    /\ tally' = [tally EXCEPT
                   !.orphaned = Cardinality(FilesMissingOnDisk(GetAllFiles(data, store)))]
    /\ SaveCatalog
    /\ phase' = "done"
    /\ localFiles' = {}
    /\ remoteByDisplayName' = NoDocs
    /\ UNCHANGED <<disk, remote, clock, lastCmd, data, store, files, jobs, closed,
                   workers, results, counters, startData, calls, processed,
                   deletedIds, prev, used, edits, startRemote, docs, existingFiles,
                   force, toDelete, log, cmdVars, todo>>

\* --------------------------------------------------------------- the signal

\* SIGINT or SIGTERM while runUpload waits for UploadFiles.  The upload
\* command installs no handler and UploadFiles takes no context, so the Go
\* runtime ends the process at once: the workers stop where they stand and
\* Manager.Save is not reached.
Interrupt ==
    /\ phase = "upload"
    /\ ~interrupted.happened
    /\ interrupted' =
          [happened |-> TRUE,
           polling |-> \E ws \in BagToSet(workers) : ws.pc = "poll",
           committed |-> GetAllFiles(data, store) \ GetAllFiles(startData, store)]
    /\ phase' = "idle"
    /\ prev' = NoPrev
    /\ ProcessGone
    /\ UNCHANGED <<disk, remote, saved, clock, lastCmd, deletedIds, used, edits,
                   uploadedAs, syncVars, discoverVars, serveVars, toolVars, hangs>>

\* ------------------------------------------------- mcp.Server.handleUpload

\* what the upload tool leaves alone: it has no catalog and no local files
ToolUnchanged ==
    UNCHANGED <<disk, saved, clock, phase, lastCmd, ret, data, store, files, jobs,
                closed, workers, results, counters, startData, calls, processed,
                deletedIds, prev, used, edits, startRemote, reconVars, cmdVars,
                syncVars, discoverVars, serveVars, interrupted, hangs>>

\* handleUpload returns
Return(call, err, success, outputError, text) ==
    [call EXCEPT !.pc = "done", !.err = err, !.success = success,
                 !.outputError = outputError, !.text = text,
                 !.updates = IF text = "Successfully updated" THEN @ + 1 ELSE @,
                 !.last = IF success THEN [@ EXCEPT ![call.input.fileName] = call.checksum]
                          ELSE @]

\* handleUpload, lines 18-80: validation, ResolveStoreName, the checksum of the
\* content, FindDocumentByDisplayName and the comparison of the checksums
HandleUploadStart ==
    /\ phase = "idle"
    /\ tool.pc \in {"none", "done"}
    /\ tool.requests < MaxRequests
    /\ \E input \in UploadInputs :
        LET call == [NotCalled EXCEPT !.requests = tool.requests + 1, !.input = input,
                                      !.before = remote, !.updates = tool.updates,
                                      !.origin = IF tool.requests = 0 THEN remote
                                                 ELSE tool.origin,
                                      !.failed = tool.failed, !.last = tool.last]
            err == UploadInputError(input)
            content == DecodedContent(input)
            checksum == PrefixedChecksum(content)
        IN  IF err # ""
            THEN tool' = Return(call, err, FALSE, FALSE, "")
            ELSE \E f \in FindDocumentByDisplayName(remote, input.fileName) :
                    LET next == AfterFind(f.found, GetDocumentChecksum(f.doc), checksum)
                        looked == [call EXCEPT !.content = content,
                                               !.checksum = checksum,
                                               !.lookupErr = f.err,
                                               !.failed = @ \/ f.err,
                                               !.found = f.found,
                                               !.existingDoc = f.doc]
                    IN  tool' = IF next = "skip"
                                THEN Return(looked, "", TRUE, FALSE, "Skipped")
                                ELSE [looked EXCEPT !.pc = next]
    /\ remote' = remote
    /\ ToolUnchanged

\* handleUpload, lines 75-79: DeleteDocument(existingDoc.Name), best effort
HandleUploadDelete ==
    /\ tool.pc = "delete"
    /\ \E ok \in BOOLEAN :
        LET id == tool.existingDoc.name
        IN  /\ ok => DocExists(remote, id)
            /\ remote' = IF ok THEN RemoveDoc(remote, id) ELSE remote
            /\ tool' = [tool EXCEPT !.pc = "upload",
                                    !.failed = @ \/ ~ok,
                                    !.calls = Append(@, DeleteCall(id, ok))]
    /\ ToolUnchanged

\* the message of a finished upload
UploadedText(call) ==
    IF call.found THEN "Successfully updated" ELSE "Successfully uploaded"

\* handleUpload, lines 82-109: UploadContentWithMetadata with the checksum as
\* custom metadata
HandleUploadContent ==
    /\ tool.pc = "upload"
    /\ LET customMetadata == ChecksumMetadata(tool.checksum)
           doc == NewDoc(DocName(tool.requests, 0), tool.input.fileName, tool.content,
                         customMetadata, tool.requests)
       IN  \E o \in UploadOutcomes(doc.name, OpName(tool.requests, 0)) :
            LET called == [tool EXCEPT !.calls = Append(@, UploadCall(customMetadata, ~o.err)),
                                       !.failed = @ \/ o.err \/ o.op.error,
                                       !.op = o.op]
            IN  /\ remote' = IF o.created THEN remote \cup {doc} ELSE remote
                /\ tool' = IF o.err
                           THEN Return(called, "", FALSE, TRUE, "Upload failed")
                           ELSE IF ~o.op.done
                           THEN [called EXCEPT !.pc = "wait"]
                           ELSE Return(called, "", TRUE, FALSE, UploadedText(called))
    /\ ToolUnchanged

\* handleUpload, lines 98-121: WaitForOperation returns
HandleUploadWait ==
    /\ tool.pc = "wait"
    /\ LET doc == NewDoc(DocName(tool.requests, 0), tool.input.fileName, tool.content,
                         ChecksumMetadata(tool.checksum), tool.requests)
       IN  \E o \in WaitOutcomes(doc.name, tool.op.name) :
            LET waited == [tool EXCEPT !.op = o.op, !.failed = @ \/ o.err \/ o.op.error]
            IN  /\ remote' = IF o.created THEN remote \cup {doc} ELSE remote
                /\ tool' = IF o.err
                           THEN Return(waited, "", FALSE, TRUE, "Upload failed")
                           ELSE Return(waited, "", TRUE, FALSE, UploadedText(waited))
    /\ ToolUnchanged

\* ------------------------------------------------------------ specifications

Next ==
    \/ EditFile
    \/ UploadStart
    \/ SendJobs
    \/ \E ws \in BagToSet(workers) : Receive(ws)
    \/ \E ws \in BagToSet(workers) : WorkerExit(ws)
    \/ \E ws \in BagToSet(workers) : Lookup(ws)
    \/ \E ws \in BagToSet(workers) : DeleteOld(ws)
    \/ \E ws \in BagToSet(workers) : Upload(ws)
    \/ \E ws \in BagToSet(workers) : Poll(ws)
    \/ \E ws \in BagToSet(workers) : CallbackRead(ws)
    \/ \E ws \in BagToSet(workers) : CallbackWrite(ws)
    \/ UploadFinish
    \/ FetchStart
    \/ FetchDoc
    \/ FetchFinish
    \/ CleanStart
    \/ CleanDelete
    \/ CleanFinish

Spec == Init /\ [][Next]_vars

\* The store as fetch and clean meet it on a machine whose catalog is empty:
\* other clients have uploaded documents.  A client records the checksum of
\* the content as custom metadata, with the "sha256:" prefix (the MCP upload)
\* or as the bare hex digest, or records none.
ForeignName(n) == <<"documents", 0, n>>

ForeignUploads ==
    UNION { [path : Paths, content : {c},
             metadata : {NoMetadata, ChecksumMetadata(HexChecksum(c)),
                         ChecksumMetadata(PrefixedChecksum(c))}] : c \in Contents }

ForeignDoc(n, u) == NewDoc(ForeignName(n), u.path, u.content, u.metadata, 0)

ForeignStores ==
    UNION { { {ForeignDoc(n, us[n]) : n \in 1..k} : us \in [1..k -> ForeignUploads] } :
            k \in 0..MaxForeignDocs }

InitReconcile ==
    /\ InitLocal
    /\ remote \in ForeignStores

NextReconcile ==
    \/ EditFile
    \/ FetchStart
    \/ FetchDoc
    \/ FetchFinish
    \/ CleanStart
    \/ CleanDelete
    \/ CleanFinish

SpecReconcile == InitReconcile /\ [][NextReconcile]_vars

\* uploads, with changes of the files between them, that a signal may end
NextInterrupt ==
    \/ EditFile
    \/ UploadStart
    \/ SendJobs
    \/ \E ws \in BagToSet(workers) : Receive(ws)
    \/ \E ws \in BagToSet(workers) : WorkerExit(ws)
    \/ \E ws \in BagToSet(workers) : Lookup(ws)
    \/ \E ws \in BagToSet(workers) : DeleteOld(ws)
    \/ \E ws \in BagToSet(workers) : Upload(ws)
    \/ \E ws \in BagToSet(workers) : Poll(ws)
    \/ \E ws \in BagToSet(workers) : CallbackRead(ws)
    \/ \E ws \in BagToSet(workers) : CallbackWrite(ws)
    \/ UploadFinish
    \/ Interrupt

SpecInterrupt == Init /\ [][NextInterrupt]_vars

\* The store as sync meets it: the catalog holds records of earlier uploads
\* and fetches, and other clients have since deleted and uploaded documents,
\* so that a record may name a document that is gone (StaleName), a document
\* of another display name, or the document of its path.
StaleName == ForeignName(0)

CachedRecords ==
    {NewMeta(p, id, HexChecksum(c), c, 0) :
        p \in Paths, id \in {ForeignName(n) : n \in 0..MaxForeignDocs}, c \in Contents}

CachedFiles ==
    UNION { {f \in [P -> CachedRecords] : \A p \in P : f[p].localPath = p} :
            P \in SUBSET Paths }

CachedCatalogs ==
    {[s \in {StoreID} |-> [NewStore(StoreID, 0) EXCEPT !.files = f]] : f \in CachedFiles}

\* sync reads the name and the display name of a document only
ListedStores == {r \in ForeignStores : \A d \in r : d.customMetadata = NoMetadata}

InitSync ==
    /\ InitRun
    /\ remote \in ListedStores
    /\ saved \in {CatalogFile(d) : d \in CachedCatalogs}

NextSync ==
    \/ SyncStart
    \/ SyncRemoveOrphan
    \/ SyncCorrectID
    \/ SyncFinish

SpecSync == InitSync /\ [][NextSync]_vars

\* Manager.Save and NewManager on one path, for the catalogs a process can
\* hold: the files of the store are named by any bytes the file system takes.
CatalogPaths == Paths \cup {Latin1Path, ReplacedPath}

CatalogRecords ==
    {NewMeta(p, ForeignName(1), HexChecksum(c), c, t) :
        p \in CatalogPaths, c \in Contents, t \in 0..MaxCommands}

CatalogFiles ==
    UNION { {f \in [P -> CatalogRecords] : \A p \in P : f[p].localPath = p} :
            P \in (SUBSET CatalogPaths) \ {{}} }

PopulatedCatalogs ==
    {[s \in {StoreID} |-> [NewStore(StoreID, 0) EXCEPT !.files = f]] : f \in CatalogFiles}

InitCatalog ==
    /\ InitLocal
    /\ remote = {}

\* a command has filled Manager.data
Populate ==
    /\ phase = "idle"
    /\ lastCmd = ""
    /\ data' \in PopulatedCatalogs
    /\ startData' = data'
    /\ lastCmd' = "populate"
    /\ UNCHANGED <<disk, remote, saved, clock, phase, ret, store, files, jobs, closed,
                   workers, results, counters, calls, processed, deletedIds, prev,
                   used, edits, startRemote, reconVars, cmdVars, auxVars>>

\* Manager.Save, and the process exits
SaveAndExit ==
    /\ phase = "idle"
    /\ lastCmd = "populate"
    /\ SaveCatalog
    /\ lastCmd' = "save"
    /\ UNCHANGED <<disk, remote, clock, phase, data, store, files, jobs, closed,
                   workers, results, counters, startData, calls, processed,
                   deletedIds, prev, used, edits, startRemote, reconVars, cmdVars,
                   auxVars>>

\* NewManager in the next process: load reads the file and json.Unmarshal
\* fills the catalog
NewManagerLoad ==
    /\ phase = "idle"
    /\ lastCmd = "save"
    /\ lastCmd' = "load"
    /\ data' = saved.stores
    /\ ret' = IF saved.valid THEN "" ELSE "failed to load store data"
    /\ UNCHANGED <<disk, remote, saved, clock, phase, store, files, jobs, closed,
                   workers, results, counters, startData, calls, processed,
                   deletedIds, prev, used, edits, startRemote, reconVars, cmdVars,
                   auxVars>>

NextCatalog ==
    \/ Populate
    \/ SaveAndExit
    \/ NewManagerLoad

SpecCatalog == InitCatalog /\ [][NextCatalog]_vars

\* DiscoverFiles on any file system, roots and patterns
AnyRoots == SeqsUpTo({TopDir, <<"r", "a">>}, MaxRoots) \ {<< >>}

InitDiscover ==
    /\ InitCore
    /\ NotServing
    /\ ServiceCompletes
    /\ saved = CatalogFile(EmptyCatalog)
    /\ remote = {}
    /\ tree \in Trees
    /\ dirs \in AnyRoots
    /\ excludePatterns \in SeqsUpTo(AnyPatterns, MaxPatterns)
    /\ discovered = NotWalked

\* runUpload, line 97: files, err := fileutil.DiscoverFiles(args, excludePatterns)
Discover ==
    /\ ~discovered.called
    /\ discovered' = DiscoverFiles(tree, dirs, excludePatterns)
    /\ UNCHANGED <<disk, remote, saved, clock, phase, lastCmd, ret, data, store, files,
                   jobs, closed, workers, results, counters, startData, calls,
                   processed, deletedIds, prev, used, edits, startRemote, reconVars,
                   cmdVars, syncVars, serveVars, interrupted, toolVars, hangs, tree, dirs,
                   excludePatterns>>

NextDiscover == Discover

SpecDiscover == InitDiscover /\ [][NextDiscover]_vars

\* the serve command with the transport sse or http
InitServe ==
    /\ InitCore
    /\ NotDiscovering
    /\ ServiceCompletes
    /\ saved = CatalogFile(EmptyCatalog)
    /\ remote = {}
    /\ serveAPIKey \in Keys
    /\ serveEnv \in Keys
    /\ httpServer = NoServer
    /\ served = NotServed

\* what the serve command leaves alone
ServeUnchanged ==
    UNCHANGED <<disk, remote, saved, clock, phase, lastCmd, ret, data, store, files,
                jobs, closed, workers, results, counters, startData, calls, processed,
                deletedIds, prev, used, edits, startRemote, reconVars, cmdVars,
                syncVars, discoverVars, interrupted, toolVars, hangs, serveAPIKey,
                serveEnv>>

\* runHTTPServerWithShutdown up to ListenAndServe: without a key from the flag
\* or the environment it returns an error, else the handler is wrapped
RunHTTPServer ==
    /\ httpServer.state = "none"
    /\ \E transportName \in {"SSE", "HTTP"} :
        LET httpAPIKey == IF serveAPIKey = "" THEN serveEnv ELSE serveAPIKey
        IN  httpServer' = IF httpAPIKey = ""
                          THEN [state |-> "refused", apiKey |-> "", transport |-> transportName]
                          ELSE [state |-> "listening", apiKey |-> httpAPIKey,
                                transport |-> transportName]
    /\ served' = served
    /\ ServeUnchanged

\* the handler APIKeyMiddleware returns, on one request
ServeHTTP ==
    /\ httpServer.state = "listening"
    /\ \E r \in Requests :
        served' = IF ProvidedKey(r) # httpServer.apiKey
                  THEN [request |-> r, status |-> StatusUnauthorized, called |-> FALSE,
                        any |-> TRUE]
                  ELSE [request |-> r, status |-> 0, called |-> TRUE, any |-> TRUE]
    /\ httpServer' = httpServer
    /\ ServeUnchanged

\* runHTTPServerWithShutdown, lines 132-145: a signal shuts the server down
Shutdown ==
    /\ httpServer.state = "listening"
    /\ httpServer' = [httpServer EXCEPT !.state = "closed"]
    /\ served' = served
    /\ ServeUnchanged

NextServe ==
    \/ RunHTTPServer
    \/ ServeHTTP
    \/ Shutdown

SpecServe == InitServe /\ [][NextServe]_vars

\* The upload tool of the MCP server on a store that is empty or holds one
\* document that another client has uploaded
SingleStores == {r \in ForeignStores : Cardinality(r) <= 1}

InitUploadTool ==
    /\ InitLocal
    /\ remote \in SingleStores

NextUploadTool ==
    \/ HandleUploadStart
    \/ HandleUploadDelete
    \/ HandleUploadContent
    \/ HandleUploadWait

SpecUploadTool == InitUploadTool /\ [][NextUploadTool]_vars

\* repeated fetches of a store that holds one document, whose file may be
\* missing or unreadable at first and changes between the fetches
InitRefetch ==
    /\ NoCommandYet
    /\ NotDiscovering
    /\ NotServing
    /\ ServiceCompletes
    /\ disk \in [Paths -> DiskStates]
    /\ saved = CatalogFile(EmptyCatalog)
    /\ remote \in SingleStores \ {{}}

NextRefetch ==
    \/ EditFile
    \/ FetchStart
    \/ FetchDoc
    \/ FetchFinish

SpecRefetch == InitRefetch /\ [][NextRefetch]_vars

\* calls of AddFile and RemoveFile on one Manager, each at a later time
MaxManagerCalls == 3

ManagerStores == {StoreID, DisplayName}

ManagerRecords ==
    {NewMeta(p, ForeignName(1), HexChecksum(c), c, 0) : p \in Paths, c \in Contents}

\* Manager.AddFile(storeName, meta)
ManagerAddFile ==
    /\ lastCmd \in {"", "manager"}
    /\ Len(log) < MaxManagerCalls
    /\ \E name \in ManagerStores, meta \in ManagerRecords :
        /\ clock' = clock + 1
        /\ data' = AddFile(data, name, meta, clock')
        /\ log' = Append(log, [op |-> "AddFile", name |-> name, meta |-> meta,
                               path |-> meta.localPath, before |-> data,
                               now |-> clock', ok |-> TRUE])
    /\ lastCmd' = "manager"
    /\ UNCHANGED <<disk, remote, saved, phase, ret, store, files, jobs, closed,
                   workers, results, counters, startData, calls, processed,
                   deletedIds, prev, used, edits, startRemote, docs, existingFiles,
                   force, toDelete, tally, cmdVars, auxVars>>

\* Manager.RemoveFile(storeName, localPath) and the value it returns
ManagerRemoveFile ==
    /\ lastCmd \in {"", "manager"}
    /\ Len(log) < MaxManagerCalls
    /\ \E name \in ManagerStores, path \in Paths :
        /\ clock' = clock + 1
        /\ data' = RemoveFile(data, name, path, clock')
        /\ log' = Append(log, [op |-> "RemoveFile", name |-> name, meta |-> ZeroMeta,
                               path |-> path, before |-> data, now |-> clock',
                               ok |-> IF name \notin DOMAIN data THEN FALSE
                                      ELSE path \in DOMAIN data[name].files])
    /\ lastCmd' = "manager"
    /\ UNCHANGED <<disk, remote, saved, phase, ret, store, files, jobs, closed,
                   workers, results, counters, startData, calls, processed,
                   deletedIds, prev, used, edits, startRemote, docs, existingFiles,
                   force, toDelete, tally, cmdVars, auxVars>>

NextManager ==
    \/ ManagerAddFile
    \/ ManagerRemoveFile

SpecManager == Init /\ [][NextManager]_vars

\* clean and delete on a store whose two documents the catalog holds: files
\* may have gone from the disk and documents from the store since the upload
SyncedDoc(p) ==
    ForeignDoc(IF p = "/a.md" THEN 1 ELSE 2,
               [path |-> p, content |-> "x",
                metadata |-> ChecksumMetadata(HexChecksum("x"))])

SyncedCatalog ==
    [s \in {StoreID} |->
        [NewStore(StoreID, 0) EXCEPT
            !.files = [p \in Paths |->
                          NewMeta(p, SyncedDoc(p).name, HexChecksum("x"), "x", 0)]]]

InitDelete ==
    /\ NoCommandYet
    /\ NotDiscovering
    /\ NotServing
    /\ ServiceCompletes
    /\ disk \in [Paths -> {"x", NoFile}]
    /\ saved = CatalogFile(SyncedCatalog)
    /\ remote \in SUBSET {SyncedDoc(p) : p \in Paths}

NextDelete ==
    \/ CleanStart
    \/ CleanDelete
    \/ CleanFinish
    \/ DeleteStart
    \/ DeleteByPattern
    \/ DeleteByID
    \/ DeleteFinish

SpecDelete == InitDelete /\ [][NextDelete]_vars

\* One upload command, given the display name of the store, on a catalog that
\* holds the record of /a.md as it was uploaded before the file was changed,
\* against a service that may leave an operation running for ever.
StaleDoc ==
    ForeignDoc(1, [path |-> "/a.md", content |-> "y", metadata |-> NoMetadata])

StaleCatalog ==
    [s \in {StoreID} |->
        [NewStore(StoreID, 0) EXCEPT
            !.files = [p \in {"/a.md"} |->
                          NewMeta("/a.md", StaleDoc.name, HexChecksum("y"), "y", 0)]]]

InitBatch ==
    /\ InitCore
    /\ NotDiscovering
    /\ NotServing
    /\ hangs = TRUE
    /\ saved = CatalogFile(StaleCatalog)
    /\ remote = {StaleDoc}

NextBatch ==
    \/ clock = 0 /\ UploadStart /\ storeName' = DisplayName
    \/ SendJobs
    \/ \E ws \in BagToSet(workers) : Receive(ws)
    \/ \E ws \in BagToSet(workers) : WorkerExit(ws)
    \/ \E ws \in BagToSet(workers) : Lookup(ws)
    \/ \E ws \in BagToSet(workers) : DeleteOld(ws)
    \/ \E ws \in BagToSet(workers) : Upload(ws)
    \/ \E ws \in BagToSet(workers) : Poll(ws)
    \/ \E ws \in BagToSet(workers) : CallbackRead(ws)
    \/ \E ws \in BagToSet(workers) : CallbackWrite(ws)
    \/ UploadFinish

\* The process is not suspended for ever: as long as the main goroutine or a
\* worker can take a step, one of them does.  Every remote call returns, and
\* WaitForOperation returns for an operation that completes.
FairBatch == WF_vars(NextBatch)

SpecBatch == InitBatch /\ [][NextBatch]_vars /\ FairBatch

\* --------------------------------------------------------------- properties

\* UploadFiles has been called by the command that runs or has just ended
UploadRan == lastCmd = "upload" /\ files # << >>

UploadEnded == UploadRan /\ phase = "done"

Jobs == 1..Len(files)

DistinctPaths == \A i, j \in Jobs : files[i] = files[j] => i = j

\* the file of job i has the content that the upload run before this one
\* uploaded successfully and saved
Unchanged(i) ==
    /\ prev[files[i]].ok
    /\ ~ChecksumFails(disk[files[i]])
    /\ prev[files[i]].checksum = CalculateChecksum(disk[files[i]])

\* C1: a file that an upload run has uploaded successfully, and whose content
\* has not changed, makes the next upload run issue no delete call and no
\* upload call for it, report it as skipped and leave its record as it was;
\* over both runs exactly one upload call is made for it.
C1_UnchangedUploadIsSkipped ==
    UploadRan =>
        \A i \in Jobs :
            Unchanged(i) =>
                /\ calls[i].deletes = << >>
                /\ calls[i].uploads = 0
                /\ prev[files[i]].uploads + calls[i].uploads = 1
                /\ processed[i] = 1 =>
                    /\ ResultKind(results[i]) = "skipped"
                    /\ FileFound(data, store, files[i])
                    /\ GetFileByPath(data, store, files[i])
                         = GetFileByPath(startData, store, files[i])

\* C1 witness: a second run has skipped a file the first run uploaded
C1_Witness ==
    /\ UploadEnded
    /\ clock = 2
    /\ \E i \in Jobs :
        /\ Unchanged(i)
        /\ ResultKind(results[i]) = "skipped"
        /\ prev[files[i]].uploads = 1

\* uploadFile found, for job i, a record with another checksum and a remote id
Changed(i) ==
    /\ calls[i].found
    /\ calls[i].seen.checksum # CalculateChecksum(disk[files[i]])
    /\ calls[i].seen.remoteID # Empty

\* C2: for a path whose record has checksum C1 and remote id R1, uploading a
\* content of another checksum C2 issues exactly one DeleteDocument(R1) and
\* then exactly one upload, never the upload first, never a second delete or
\* upload; when the upload succeeds the committed record has checksum C2 and
\* the id the gateway returned, which is not R1.
C2_ChangeDeletesThenUploads ==
    UploadRan =>
        \A i \in Jobs :
            Changed(i) =>
                LET c == calls[i]
                    R1 == c.seen.remoteID
                    C2 == CalculateChecksum(disk[files[i]])
                    returned == IF c.op.response # Empty THEN c.op.response
                                ELSE c.op.name
                IN  /\ c.deletes \in {<< >>, <<R1>>}
                    /\ c.uploads <= 1
                    /\ c.deleteFirst
                    /\ c.uploads = 1 => c.deletes = <<R1>>
                    /\ processed[i] = 1 =>
                        /\ c.deletes = <<R1>>
                        /\ c.uploads = 1
                        /\ ResultKind(results[i]) = "success" =>
                            /\ results[i].metadata.checksum = C2
                            /\ results[i].metadata.remoteID = returned
                            /\ results[i].metadata.remoteID # R1
                            /\ FileFound(data, store, files[i])
                            /\ GetFileByPath(data, store, files[i]).checksum = C2
                            /\ GetFileByPath(data, store, files[i]).remoteID # R1

\* C2 witness: a changed file has been replaced, the old document deleted
C2_Witness ==
    /\ UploadEnded
    /\ \E i \in Jobs :
        /\ Changed(i)
        /\ ResultKind(results[i]) = "success"
        /\ calls[i].deletes = <<calls[i].seen.remoteID>>
        /\ calls[i].seen.remoteID \in deletedIds

\* the outcome of job i as its inputs decide it: the file, the record of its
\* path when UploadFiles started, and whether the gateway failed its upload
ExpectedKind(i) ==
    IF ChecksumFails(disk[files[i]]) THEN "error"
    ELSE IF /\ FileFound(startData, store, files[i])
            /\ GetFileByPath(startData, store, files[i]).checksum
                 = CalculateChecksum(disk[files[i]])
    THEN "skipped"
    ELSE IF calls[i].gwErr THEN "error"
    ELSE "success"

\* C3: for N files with distinct paths and any number of workers, UploadFiles
\* returns N results, result i belongs to file i, every file is processed
\* exactly once, every result is exactly one of success, skipped and error,
\* and which one does not depend on the workers or their interleaving.
C3_PartitionInvariant ==
    (UploadRan /\ DistinctPaths) =>
        /\ Len(results) = Len(files)
        /\ \A i \in Jobs :
            /\ processed[i] <= 1
            /\ phase = "done" => processed[i] = 1
            /\ processed[i] = 1 =>
                /\ results[i].fileInfo = files[i]
                /\ ~(results[i].error # "" /\ results[i].skipped)
                /\ ResultKind(results[i]) = ExpectedKind(i)

\* C3 witness: two files, several workers, two different outcomes
C3_Witness ==
    /\ UploadEnded
    /\ DistinctPaths
    /\ Len(files) = 2
    /\ BagCardinality(workers) > 1
    /\ ResultKind(results[1]) # ResultKind(results[2])

\* C4: when an upload batch has ended and saved the catalog, no saved record
\* names a document that the upload pipeline has deleted (the weakest part of
\* the claim: a saved record with a remote id names a document that exists
\* remotely and has the record's checksum).
C4_SavedRecordNeverNamesDeletedDocument ==
    (UploadEnded /\ ret # "failed to save store data" /\ saved.valid) =>
        \A s \in DOMAIN saved.stores :
            \A p \in DOMAIN saved.stores[s].files :
                saved.stores[s].files[p].remoteID \notin deletedIds

\* C8: runUpload, once it has called UploadFiles and saved the catalog,
\* returns an error exactly if some result carries an error; every file has
\* been processed, and the saved catalog holds the records of the successful
\* files.
C8_UploadFailsIffAFileFailed ==
    (UploadEnded /\ ret # "failed to save store data") =>
        /\ (ret # "") <=> (\E i \in Jobs : ResultKind(results[i]) = "error")
        /\ \A i \in Jobs : processed[i] = 1
        /\ saved.valid
        /\ \A i \in Jobs :
            ResultKind(results[i]) = "success" =>
                /\ FileFound(saved.stores, store, files[i])
                /\ \E j \in Jobs :
                    /\ files[j] = files[i]
                    /\ ResultKind(results[j]) = "success"
                    /\ GetFileByPath(saved.stores, store, files[i]) = results[j].metadata

\* C8 witness: one file failed, the other was uploaded and its record saved
C8_Witness ==
    /\ UploadEnded
    /\ ret = "some uploads failed"
    /\ \E i, j \in Jobs :
        /\ ResultKind(results[i]) = "error"
        /\ ResultKind(results[j]) = "success"
        /\ GetFileByPath(saved.stores, store, files[j]) = results[j].metadata

\* the number of results that count under a counter of the summary
CountOf(k) == Cardinality({i \in Jobs : CounterOf(results[i]) = k})

\* C10: after an upload batch of N files the counts of the summary add up to
\* N, and each count is the number of results of its kind.
C10_TallyExact ==
    UploadEnded =>
        /\ counters.uploaded + counters.skipped + counters.failed = Len(files)
        /\ \A k \in {"uploaded", "skipped", "failed"} : counters[k] = CountOf(k)

\* the fetch loop has run, or runs
FetchRan == lastCmd = "fetch" /\ phase \in {"fetch", "done"}

\* the document of a log entry carries a checksum that differs from the
\* checksum of the file at its path
Mismatch(e) ==
    /\ GetDocumentChecksum(e.doc) # Empty
    /\ ~ChecksumFails(disk[e.doc.displayName])
    /\ GetDocumentChecksum(e.doc) # CalculateChecksum(disk[e.doc.displayName])

\* when fetch started, the catalog held a record of the document's path with
\* the document's checksum and remote id
AlreadyCached(e) ==
    /\ e.doc.displayName \in DOMAIN existingFiles
    /\ existingFiles[e.doc.displayName].checksum = GetDocumentChecksum(e.doc)
    /\ existingFiles[e.doc.displayName].remoteID = e.doc.name

\* without --force the record is left as it is and the document counts as
\* skipped; with --force the record takes the document's id and checksum and
\* the document counts as updated
MismatchPolicy(e) ==
    IF force
    THEN /\ e.category = "updated"
         /\ e.hasRecord
         /\ e.after.remoteID = e.doc.name
         /\ e.after.checksum = GetDocumentChecksum(e.doc)
    ELSE /\ e.category = "skipped"
         /\ e.hasRecord = e.hadRecord
         /\ e.after = e.before

CleanRan == lastCmd = "clean" /\ phase \in {"clean", "done"} /\ store # ""

\* the records of the store when clean started, and those whose file is missing
CleanRecords == GetAllFiles(startData, store)

CleanMissing == {f \in CleanRecords : StatNotExist(disk[f.localPath])}

\* C6: a confirmed or forced clean calls DeleteDocument exactly for the records
\* whose local path does not exist on disk, once per record; the records whose
\* file exists, and their remote documents, are not deleted or changed.
C6_CleanTargetsMissingOnly ==
    CleanRan =>
        LET called == {log[k].record : k \in 1..Len(log)}
        IN  /\ called \subseteq CleanMissing
            /\ Cardinality(called) = Len(log)
            /\ phase = "done" => called = CleanMissing
            /\ \A f \in CleanRecords \ CleanMissing :
                /\ FileFound(data, store, f.localPath)
                /\ GetFileByPath(data, store, f.localPath) = f
                /\ \A d \in startRemote : d.name = f.remoteID => d \in remote

\* C6 witness: clean has deleted the document of a missing file and kept a
\* record whose file exists, with its document
C6_Witness ==
    /\ CleanRan
    /\ phase = "done"
    /\ \E k \in 1..Len(log) : log[k].ok
    /\ \E f \in CleanRecords \ CleanMissing : DocExists(remote, f.remoteID)

\* C7: whatever the catalog, the disk and the force flag, the remote documents
\* during and after runFetch are those it found
C7_FetchLeavesRemoteAlone == FetchRan => remote = startRemote

\* C7 witness: a fetch with --force has overwritten a record
C7_Witness ==
    /\ FetchRan
    /\ phase = "done"
    /\ force
    /\ remote # {}
    /\ \E k \in 1..Len(log) : log[k].hadRecord /\ log[k].after # log[k].before

\* C9: when a DeleteDocument call of clean has failed, runClean returns an
\* error
C9_CleanFailsIfADeleteFailed ==
    (CleanRan /\ phase = "done" /\ \E k \in 1..Len(log) : ~log[k].ok) => ret # ""

\* the loops of runSync have started, or have ended
SyncRan == lastCmd = "sync" /\ phase \in {"syncOrphans", "syncIds", "done"} /\ store # ""

SyncEnded == SyncRan /\ phase = "done"

\* the records of the store before the sync
SyncRecords == GetAllFiles(startData, store)

DisplayNameMatch(f) == \E d \in remote : d.displayName = f.localPath

RemoteIDMatch(f) == \E d \in remote : d.name = f.remoteID

\* C11: after sync, a record that was in the cache before is gone if and only
\* if no remote document has its local path as display name and no remote
\* document has its remote id as name (in memory, and in the catalog file if
\* the save succeeded); and from the moment the first loop removes a record
\* as an orphan, the record is not in the cache for the rest of the run.
C11_OrphansRemovedExactly ==
    /\ SyncEnded =>
          \A f \in SyncRecords :
              /\ ~FileFound(data, store, f.localPath)
                    <=> (~DisplayNameMatch(f) /\ ~RemoteIDMatch(f))
              /\ ret = "" =>
                    (FileFound(saved.stores, store, f.localPath)
                        <=> FileFound(data, store, f.localPath))
    /\ SyncRan =>
          \A i \in 1..Len(log) :
              (log[i].loop = "orphans" /\ log[i].acted)
                  => ~FileFound(data, store, log[i].record.localPath)

\* C11 witness: a sync has ended and saved, it removed one record as an orphan
\* and kept another
C11_Witness ==
    /\ SyncEnded
    /\ ret = ""
    /\ \E f, g \in SyncRecords :
        /\ ~FileFound(saved.stores, store, f.localPath)
        /\ FileFound(saved.stores, store, g.localPath)
        /\ \E i \in 1..Len(log) :
              log[i].loop = "orphans" /\ log[i].acted /\ log[i].record = f

\* C12: after sync, every record whose local path is the display name of a
\* remote document has as remote id the name of an existing remote document
\* with that display name; a record the second loop corrected differs from
\* what it was in its remote id only (checksum, size, uploaded_at, mime type
\* and remote name are as before); a successful save writes just that.
C12_StaleIdCorrected ==
    SyncEnded =>
        /\ \A f \in GetAllFiles(data, store) :
              DisplayNameMatch(f) =>
                  \E d \in remote : d.displayName = f.localPath /\ d.name = f.remoteID
        /\ \A i \in 1..Len(log) :
              (log[i].loop = "ids" /\ log[i].acted) =>
                  LET f == log[i].record
                      g == GetFileByPath(data, store, f.localPath)
                  IN  /\ FileFound(data, store, f.localPath)
                      /\ g.remoteID # f.remoteID
                      /\ g = [f EXCEPT !.remoteID = g.remoteID]
        /\ ret = "" => saved.stores = data

\* C12 witness: a sync has ended and saved after it corrected the id of a
\* record whose size differs from the size of the document it now names
C12_Witness ==
    /\ SyncEnded
    /\ ret = ""
    /\ \E i \in 1..Len(log) :
        /\ log[i].loop = "ids"
        /\ log[i].acted
        /\ \E d \in remote :
            /\ d.name = GetFileByPath(saved.stores, store, log[i].record.localPath).remoteID
            /\ d.sizeBytes # log[i].record.size

\* C13: after a successful sync, every document of the remote store has a
\* record in the cache of that store, under its display name.
C13_SyncImportsRemoteDocuments ==
    (SyncEnded /\ ret = "") =>
        \A d \in remote : FileFound(saved.stores, store, d.displayName)

\* the catalog as the clean that ran last read it
CatalogAtCleanStart == IF store # "" THEN startData ELSE data

\* C14: a --store value under which an upload has committed and saved its
\* records denotes the same cache store for clean: given the same value,
\* clean finds the store, and the records it examines are the records of the
\* store the upload wrote to.
C14_StoreNameDenotesOneCache ==
    (/\ lastCmd = "clean"
     /\ uploadedAs # ""
     /\ storeName = uploadedAs
     /\ ret # "failed to initialize store manager")
        => /\ ret # "store not found"
           /\ GetAllFiles(CatalogAtCleanStart, storeName)
                = GetAllFiles(CatalogAtCleanStart, ResolveStoreName(uploadedAs))

\* C15: at every point of an execution the catalog file holds a complete
\* catalog (the one saved before or the new one), never a file cut short.
C15_CatalogFileNeverPartial == saved.valid

\* C16: a populated catalog that was saved with Manager.Save and loaded with
\* NewManager from the same path has the same store names, per store the
\* same file keys, and for each record the same field values (the file is
\* the one that Save wrote in full).
C16_CatalogRoundTrip ==
    (lastCmd = "load" /\ ret = "" /\ saved = CatalogFile(startData)) =>
        /\ DOMAIN data = DOMAIN startData
        /\ \A n \in DOMAIN startData :
            /\ n \in DOMAIN data
            /\ DOMAIN data[n].files = DOMAIN startData[n].files
            /\ \A k \in DOMAIN startData[n].files :
                /\ k \in DOMAIN data[n].files
                /\ data[n].files[k] = startData[n].files[k]

\* the files DiscoverFiles returned
Discovered == {discovered.files[i] : i \in 1..Len(discovered.files)}

PathExcluded(q) == \E i \in 1..Len(excludePatterns) : MatchString(excludePatterns[i], q)

\* q is the root or lies below it
UnderRoot(q, root) == Len(q) >= Len(root) /\ SubSeq(q, 1, Len(root)) = root

\* on the way from the root down to q there is a directory that is excluded
BelowExcluded(q, root) ==
    \E k \in Len(root)..(Len(q) - 1) : PathExcluded(SubSeq(q, 1, k))

\* C17: with an invalid pattern DiscoverFiles returns the error and no file,
\* and has walked no directory.  Otherwise it returns no file whose path
\* matches a pattern, enters no directory whose path matches one, returns
\* only files that a root reaches without passing such a directory, and,
\* when the walk succeeds, returns every file under a root that does not
\* match and lies below no excluded directory.
C17_ExclusionCorrect ==
    discovered.called =>
        IF \E i \in 1..Len(excludePatterns) : CompileFails(excludePatterns[i])
        THEN /\ discovered.err = "invalid exclude pattern"
             /\ discovered.files = << >>
             /\ discovered.entered = {}
        ELSE /\ \A q \in Discovered : tree[q] = "file" /\ ~PathExcluded(q)
             /\ \A d \in discovered.entered : ~PathExcluded(d)
             /\ \A q \in Discovered :
                   \E i \in 1..Len(dirs) :
                       UnderRoot(q, dirs[i]) /\ ~BelowExcluded(q, dirs[i])
             /\ discovered.err = "" =>
                   \A q \in TreePaths, i \in 1..Len(dirs) :
                       (/\ tree[q] = "file"
                        /\ UnderRoot(q, dirs[i])
                        /\ ~PathExcluded(q)
                        /\ ~BelowExcluded(q, dirs[i])) => q \in Discovered

\* C17 witness: one walk left out a file whose path matches, left out a file
\* that matches no pattern but lies in an excluded directory, and returned a
\* third file
C17_Witness ==
    /\ discovered.called
    /\ discovered.err = ""
    /\ \E q1, q2, q3 \in TreePaths :
        /\ tree[q1] = "file" /\ PathExcluded(q1) /\ ~BelowExcluded(q1, dirs[1])
        /\ tree[q2] = "file" /\ ~PathExcluded(q2) /\ BelowExcluded(q2, dirs[1])
        /\ q1 \notin Discovered
        /\ q2 \notin Discovered
        /\ q3 \in Discovered

\* the key of a request: the X-API-Key header, else the token of a Bearer
\* Authorization header, else the api_key query parameter
RequestKey(r) ==
    IF r.xAPIKey # "" THEN r.xAPIKey
    ELSE IF r.authorization.prefix = "Bearer " /\ r.authorization.rest # ""
    THEN r.authorization.rest
    ELSE r.apiKeyParam

\* C18: the HTTP or SSE server does not start without a configured key; the
\* middleware calls the wrapped handler only for a request whose key is the
\* configured key (so never for a request without a key), and every other
\* request is answered with 401 without a call of the handler.
C18_OnlyAuthenticatedRequestsHandled ==
    /\ (serveAPIKey = "" /\ serveEnv = "") => httpServer.state \in {"none", "refused"}
    /\ httpServer.state \in {"listening", "closed"} =>
          /\ httpServer.apiKey # ""
          /\ httpServer.apiKey \in {serveAPIKey, serveEnv}
    /\ served.any =>
          /\ served.called <=> RequestKey(served.request) = httpServer.apiKey
          /\ served.called => RequestKey(served.request) # ""
          /\ ~served.called <=> served.status = StatusUnauthorized

\* C18 witness: the server got its key from the environment, and the
\* middleware has passed a request on whose key came as a Bearer token while
\* its query parameter held another key
C18_Witness ==
    /\ serveAPIKey = ""
    /\ httpServer.state = "listening"
    /\ served.called
    /\ served.request.xAPIKey = ""
    /\ served.request.authorization.rest = httpServer.apiKey
    /\ served.request.apiKeyParam \notin {"", httpServer.apiKey}

\* clean ran without --force and the answer it read is neither y nor yes
\* (or it returned before it asked)
CleanUnconfirmed == lastCmd = "clean" /\ ~force /\ response \notin {"y", "yes"}

\* C19: a step that ends with clean not forced and not answered with y or
\* yes deletes no remote document, leaves the catalog file as it is and
\* removes no record: the loop over the records is never entered.
C19_CleanNeedsConfirmation ==
    [][CleanUnconfirmed' =>
          /\ remote' = remote
          /\ saved' = saved
          /\ phase' # "clean"
          /\ log' = << >>
          /\ tally' = ZeroTally
          /\ (phase' = "done" /\ saved.valid) => data' = saved.stores]_vars

\* C19 witness: clean found a record whose file is gone, asked, and was
\* answered with something else than y or yes
C19_Witness ==
    /\ lastCmd = "clean"
    /\ phase = "done"
    /\ ~force
    /\ response \in {"n", "Y"}
    /\ FilesMissingOnDisk(GetAllFiles(data, storeName)) # {}
    /\ \E f \in GetAllFiles(saved.stores, storeName) : DocExists(remote, f.remoteID)

\* C20: when a signal has ended an upload, no upload was left waiting for
\* its operation (what was in flight ran to completion first), and every
\* record the run had committed by then is in the catalog file.
C20_CancellationIsCooperative ==
    (interrupted.happened /\ lastCmd = "upload" /\ phase = "idle") =>
        /\ ~interrupted.polling
        /\ \A m \in interrupted.committed :
              GetFileByPath(saved.stores, TrimStorePrefix(PrefixedName), m.localPath) = m

\* the upload tool got past the validation of its input
ToolCalled == tool.pc # "none" /\ tool.err = ""

\* the documents of the display name of the call, as the call met them
ToolNamesakes == {d \in tool.before : d.displayName = tool.input.fileName}

\* the calls a replacement makes, in their order
ReplacementCalls ==
    <<"DeleteDocument", "UploadContentWithMetadata">>

\* C21 as stated: whenever the store holds a document of the display name
\* whose checksum metadata equals the checksum of the submitted content, the
\* upload tool issues no delete and no upload and reports the skip; whenever
\* the documents of that name all carry another checksum, it issues a delete
\* and then an upload.
C21_DedupByRemoteChecksum ==
    (ToolCalled /\ tool.pc = "done") =>
        /\ (\E d \in ToolNamesakes : GetDocumentChecksum(d) = tool.checksum) =>
                /\ tool.calls = << >>
                /\ tool.success
                /\ tool.text = "Skipped"
        /\ (/\ ToolNamesakes # {}
            /\ \A d \in ToolNamesakes : GetDocumentChecksum(d) # tool.checksum) =>
                [i \in 1..Len(tool.calls) |-> tool.calls[i].call] = ReplacementCalls

\* C21, amended: the upload tool decides on the document that
\* FindDocumentByDisplayName returned.  If its checksum metadata equals the
\* checksum of the submitted content the tool issues no delete and no upload,
\* leaves the store as it is and reports success as skipped.  If it differs
\* the tool issues a delete of that document and then one upload that
\* carries the checksum as custom metadata.  If the search failed or found
\* nothing the tool uploads without a delete.  Every document the call adds
\* carries the display name and the checksum of the submitted content.
C21_DedupByDocumentFound ==
    ToolCalled =>
        LET same == GetDocumentChecksum(tool.existingDoc) = tool.checksum
            names == [i \in 1..Len(tool.calls) |-> tool.calls[i].call]
        IN  /\ tool.found => tool.existingDoc \in ToolNamesakes
            /\ (tool.found /\ same) =>
                    /\ tool.pc = "done"
                    /\ tool.calls = << >>
                    /\ tool.success /\ ~tool.outputError
                    /\ tool.text = "Skipped"
                    /\ remote = tool.before
            /\ (tool.found /\ ~same) =>
                    /\ tool.pc = "delete" => names = << >>
                    /\ tool.pc = "upload" => names = <<"DeleteDocument">>
                    /\ tool.pc \in {"wait", "done"} => names = ReplacementCalls
                    /\ names # << >> => tool.calls[1].name = tool.existingDoc.name
                    /\ tool.text # "Skipped"
            /\ ~tool.found =>
                    /\ tool.pc = "upload" => names = << >>
                    /\ tool.pc \in {"wait", "done"} => names = <<"UploadContentWithMetadata">>
            /\ \A i \in 1..Len(tool.calls) :
                    tool.calls[i].call = "UploadContentWithMetadata" =>
                        tool.calls[i].metadata = ChecksumMetadata(tool.checksum)
            /\ \A d \in remote \ tool.before :
                    /\ d.displayName = tool.input.fileName
                    /\ d.content = tool.content
                    /\ d.customMetadata = ChecksumMetadata(tool.checksum)

\* C21: a second call with the content of the first is skipped on the
\* checksum the first call attached, after the first call replaced a document
C21_Witness ==
    /\ ToolCalled
    /\ tool.requests = 2
    /\ tool.pc = "done"
    /\ tool.text = "Skipped"
    /\ tool.existingDoc.name = DocName(1, 0)
    /\ tool.updates = 1

IsPrefix(s, t) == Len(s) <= Len(t) /\ SubSeq(t, 1, Len(s)) = s

\* the steps of a file that is uploaded, with and without an old document to
\* delete, with and without an operation to wait for
Lifecycles ==
    { <<"checksum", "lookup">> \o d \o <<"upload">> \o w \o <<"commit">> :
        d \in {<< >>, <<"delete">>}, w \in {<< >>, <<"poll">>} }

StepsOf(i) == {calls[i].steps[k] : k \in 1..Len(calls[i].steps)}

\* C22: the steps uploadFile has taken for a file are, at every moment, the
\* beginning of checksum, lookup, optional delete, upload, optional poll,
\* commit; the delete is there exactly for a changed file whose record names
\* a document; the commit is there only with an operation that is done, and
\* it is what gives the file its success.
C22_StepsStrictlyOrdered ==
    \A i \in Jobs :
        /\ \E l \in Lifecycles : IsPrefix(calls[i].steps, l)
        /\ ("upload" \in StepsOf(i) /\ "delete" \notin StepsOf(i)) =>
                ~(calls[i].found /\ calls[i].seen.remoteID # Empty)
        /\ "delete" \in StepsOf(i) =>
                /\ calls[i].found
                /\ calls[i].seen.checksum # CalculateChecksum(disk[files[i]])
        /\ "commit" \in StepsOf(i) =>
                /\ calls[i].op.done
                /\ calls[i].uploads = 1
                /\ ResultKind(results[i]) = "success"
                /\ processed[i] = 1
        /\ (processed[i] = 1 /\ ResultKind(results[i]) = "success") =>
                "commit" \in StepsOf(i)
        /\ (processed[i] = 0 /\ "commit" \notin StepsOf(i)) =>
                \/ \E j \in Jobs : j # i /\ files[j] = files[i]
                \/ GetFileByPath(data, store, files[i]) =
                        GetFileByPath(startData, store, files[i])

\* C22: a changed file went through all six steps
C22_Witness ==
    \E i \in Jobs :
        /\ calls[i].steps = <<"checksum", "lookup", "delete", "upload", "poll", "commit">>
        /\ GetFileByPath(data, store, files[i]) = results[i].metadata
        /\ GetFileByPath(startData, store, files[i]) # results[i].metadata

\* a worker is about to issue the upload of job i
AtUpload(i) == \E ws \in BagToSet(workers) : ws.idx = i /\ ws.pc = "upload"

\* C23: when the delete of the old document of a changed file has failed,
\* the upload is issued all the same; the file ends as an error only if the
\* upload or its operation failed, and if the upload succeeded it ends as a
\* success whose record, the one committed to the cache, carries the name of
\* the new document and the checksum of the file as it is now.
C23_DeleteIsBestEffort ==
    \A i \in Jobs :
        calls[i].deleteErr =>
            /\ calls[i].deletes = <<calls[i].seen.remoteID>>
            /\ calls[i].seen.checksum # CalculateChecksum(disk[files[i]])
            /\ AtUpload(i) \/ calls[i].uploads = 1
            /\ processed[i] = 1 =>
                    /\ calls[i].uploads = 1
                    /\ results[i].error \in {"", "failed to upload", "upload operation failed"}
                    /\ ~results[i].skipped
                    /\ (~calls[i].gwErr) =>
                            /\ ResultKind(results[i]) = "success"
                            /\ results[i].metadata.remoteID = DocumentName(calls[i].op)
                            /\ results[i].metadata.remoteID # calls[i].seen.remoteID
                            /\ results[i].metadata.checksum = CalculateChecksum(disk[files[i]])
                            /\ \/ GetFileByPath(data, store, files[i]) = results[i].metadata
                               \/ \E j \in Jobs : j # i /\ files[j] = files[i]

\* C23: the delete failed although the old document was there, the upload
\* succeeded, and the cache names the new document
C23_Witness ==
    \E i \in Jobs :
        /\ calls[i].deleteErr
        /\ DocExists(remote, calls[i].seen.remoteID)
        /\ processed[i] = 1
        /\ ResultKind(results[i]) = "success"
        /\ GetFileByPath(data, store, files[i]) = results[i].metadata
        /\ DocExists(remote, results[i].metadata.remoteID)

\* C24: a file whose wait for the operation returned an error, or whose
\* operation the service reported as done with an error, ends as an error
\* after exactly one upload call, and no record is committed for it.
C24_OperationErrorIsFileError ==
    \A i \in Jobs :
        (/\ processed[i] = 1
         /\ \/ "poll" \in StepsOf(i) /\ calls[i].gwErr
            \/ calls[i].op.done /\ calls[i].op.error) =>
            /\ ResultKind(results[i]) = "error"
            /\ calls[i].uploads = 1
            /\ "commit" \notin StepsOf(i)

\* the record of path p is as it was when UploadFiles started
RecordAsBefore(p) ==
    /\ FileFound(data, store, p) = FileFound(startData, store, p)
    /\ GetFileByPath(data, store, p) = GetFileByPath(startData, store, p)

\* C25: a file that ended as an error (checksum, upload or wait) has made no
\* commit, and the record of a path is changed by nothing but a commit of a
\* file of that path: it is as it was before the batch (absent, or equal in
\* every field) as long as no file of the path has committed.  So the record
\* of a path whose only file ended as an error is unchanged after the batch,
\* in the cache and in the catalog file that the command saves.
C25_ErrorLeavesRecordUnchanged ==
    UploadRan =>
        /\ \A i \in Jobs :
            (processed[i] = 1 /\ ResultKind(results[i]) = "error") =>
                /\ "commit" \notin StepsOf(i)
                /\ results[i].metadata = ZeroMeta
                /\ (\A j \in Jobs : files[j] = files[i] => j = i) =>
                        RecordAsBefore(files[i])
        /\ \A p \in Paths :
            (\A j \in Jobs : files[j] = p => "commit" \notin StepsOf(j)) =>
                /\ RecordAsBefore(p)
                /\ (phase = "done" /\ ret \in {"", "some uploads failed"}) =>
                        GetFileByPath(saved.stores, store, p)
                            = GetFileByPath(startData, store, p)

\* C25: the upload of a changed file failed after its old document was
\* deleted, and the cache and the saved catalog still hold the old record
C25_Witness ==
    /\ UploadEnded
    /\ ret = "some uploads failed"
    /\ \E i \in Jobs :
        /\ ResultKind(results[i]) = "error"
        /\ calls[i].uploads = 1
        /\ calls[i].found
        /\ calls[i].deletes # << >>
        /\ FileFound(data, store, files[i])
        /\ GetFileByPath(saved.stores, store, files[i]) = calls[i].seen

\* the workers of UploadFiles that stand at one of the given places
WorkersAt(pcs) ==
    BagCardinality([ws \in {w \in BagToSet(workers) : w.pc \in pcs} |-> workers[ws]])

\* the pool size the --parallelism flag asks for
ConfiguredPool == IF parallelism < 1 THEN 5 ELSE parallelism

\* C26: while UploadFiles runs there are as many workers as the configured
\* parallelism, 5 if that is below 1; the files in uploadFile (from the
\* checksum to the result) are never more than that, each held by one worker,
\* and so are the upload and poll calls in flight.
C26_PoolIsBounded ==
    (UploadRan /\ phase = "upload") =>
        /\ BagCardinality(workers) = ConfiguredPool
        /\ WorkersAt({"lookup", "delete", "upload", "poll"}) <= ConfiguredPool
        /\ WorkersAt({"upload", "poll"}) <= ConfiguredPool
        /\ Cardinality({i \in Jobs : calls[i].steps # << >> /\ processed[i] = 0})
                <= ConfiguredPool
        /\ \A i \in Jobs :
                (closed /\ processed[i] = 0 /\ Len(jobs) + i <= Len(files)) =>
                    \E ws \in BagToSet(workers) : ws.idx = i /\ ws.pc # "idle"

\* C26: two files and a pool of one: a file waits in the channel while the
\* worker polls the operation of the other
C26_Witness ==
    /\ phase = "upload"
    /\ parallelism = 1
    /\ Len(files) = 2
    /\ Len(jobs) = 1
    /\ WorkersAt({"poll"}) = 1

\* a worker polls an operation that never completes
Stuck == \E ws \in BagToSet(workers) : ws.stuck

\* UploadFiles has returned, with a result for every file
Returned == phase = "done" /\ \A i \in Jobs : processed[i] = 1

\* C27: a batch that is running returns with a result for each of its files,
\* whatever the number of files and of workers, unless a worker polls an
\* operation that never completes; and from the moment a worker does, the
\* batch is running for ever: WaitForOperation has no maximum wait.
C27_BatchTerminatesUnlessStuck ==
    /\ (phase = "upload") ~> (Returned \/ Stuck)
    /\ [](Stuck => [](Stuck /\ phase = "upload"))

\* C27: two files on a pool of one worker: the first has its result, the
\* worker polls the operation of the second, which never completes
C27_Witness ==
    /\ phase = "upload"
    /\ parallelism = 1
    /\ Len(files) = 2
    /\ processed = <<1, 0>>
    /\ Stuck

\* no worker is inside uploadFile or its callback, and every file has its result
NoWorkerRunning ==
    /\ \A ws \in BagToSet(workers) : ws.pc = "exit"
    /\ \A i \in Jobs : processed[i] = 1

\* the catalog file holds, for every file that ended as a success, the record
\* of its result, or the record of a later success of the same path
SavedHoldsSuccesses ==
    \A i \in Jobs :
        ResultKind(results[i]) = "success" =>
            /\ FileFound(saved.stores, store, files[i])
            /\ \E j \in Jobs :
                /\ files[j] = files[i]
                /\ ResultKind(results[j]) = "success"
                /\ GetFileByPath(saved.stores, store, files[i]) = results[j].metadata

\* C28: during an upload command the catalog file changes in one step only,
\* the one in which runUpload calls Save after UploadFiles has returned: at
\* that step every worker has ended and every file has its result, so no
\* worker writes the file and no uploadFile runs while it is written; once
\* the command has returned the file does not change again, and after a Save
\* that succeeded it holds the record of every file that ended as a success.
C28_SavedOnceAfterJoin ==
    [][ /\ (lastCmd = "upload" /\ lastCmd' = "upload" /\ clock' = clock
                /\ saved' # saved) =>
                /\ phase = "upload"
                /\ phase' = "done"
                /\ NoWorkerRunning
                /\ data' = data
        /\ (lastCmd' = "upload" /\ phase = "upload" /\ phase' = "done"
                /\ ret' # "failed to save store data") =>
                /\ saved' = CatalogFile(data)
                /\ SavedHoldsSuccesses'
      ]_vars

\* C28: two files were committed by different workers and the command has
\* saved both records
C28_Witness ==
    /\ UploadEnded
    /\ ret = ""
    /\ Len(files) = 2
    /\ files[1] # files[2]
    /\ \A i \in Jobs : ResultKind(results[i]) = "success"
    /\ SavedHoldsSuccesses
    /\ BagCardinality(workers) = 5

\* the upload calls made in the batch for path p
UploadCallsFor(p) ==
    LET js == {i \in Jobs : files[i] = p}
        RECURSIVE Sum(_)
        Sum(S) == IF S = {} THEN 0
                  ELSE LET i == CHOOSE k \in S : TRUE
                       IN  calls[i].uploads + Sum(S \ {i})
    IN  Sum(js)

\* C29: whatever the roots of the upload command, a path that has no cache
\* record when the batch starts gets at most one upload call and at most one
\* new remote document in the batch.
C29_NoPathUploadedTwice ==
    UploadRan =>
        \A p \in Paths :
            ~FileFound(startData, store, p) =>
                /\ UploadCallsFor(p) <= 1
                /\ Cardinality({d \in remote \ startRemote : d.displayName = p}) <= 1

\* the path of the document of a log entry had no record when fetch read the
\* catalog, and its file can be read
Uncached(e) ==
    /\ e.doc.displayName \notin DOMAIN existingFiles
    /\ ~ChecksumFails(disk[e.doc.displayName])

\* the document carries no checksum, or the checksum of the file
Importable(e) ==
    \/ GetDocumentChecksum(e.doc) = Empty
    \/ GetDocumentChecksum(e.doc) = CalculateChecksum(disk[e.doc.displayName])

\* C30: a document whose path has no cache record and whose file is on disk,
\* and that carries the checksum of the file or no checksum, is counted as
\* added, and the catalog then holds a record of the path with the document's
\* remote id and the checksum of the file.
C30_UncachedImport ==
    FetchRan =>
        \A k \in 1..Len(log) :
            (Uncached(log[k]) /\ Importable(log[k])) =>
                /\ log[k].category = "added"
                /\ ~log[k].hadRecord \/ log[k].before.localPath = log[k].doc.displayName
                /\ log[k].hasRecord
                /\ log[k].after.localPath = log[k].doc.displayName
                /\ log[k].after.remoteID = log[k].doc.name
                /\ log[k].after.checksum = CalculateChecksum(disk[log[k].doc.displayName])

\* C30 witness: one fetch has imported a document without checksum and a
\* document with the checksum of its file, both for paths without record
C30_Witness ==
    /\ FetchRan
    /\ \E j, k \in 1..Len(log) :
        /\ Uncached(log[j]) /\ ~log[j].hadRecord
        /\ GetDocumentChecksum(log[j].doc) = Empty
        /\ log[j].category = "added"
        /\ log[j].after.checksum = CalculateChecksum(disk[log[j].doc.displayName])
        /\ Uncached(log[k]) /\ ~log[k].hadRecord
        /\ GetDocumentChecksum(log[k].doc) = CalculateChecksum(disk[log[k].doc.displayName])
        /\ log[k].category = "added"
        /\ log[k].after.remoteID = log[k].doc.name

\* when fetch read the catalog it held a record of the path of the document
\* of a log entry; the file can be read and its checksum is not the record's;
\* the document carries no checksum
LocallyChanged(e) ==
    /\ e.doc.displayName \in DOMAIN existingFiles
    /\ ~ChecksumFails(disk[e.doc.displayName])
    /\ existingFiles[e.doc.displayName].checksum
         # CalculateChecksum(disk[e.doc.displayName])
    /\ GetDocumentChecksum(e.doc) = Empty

\* the record of the path is left as it was and the document is counted
\* under needs upload
FlaggedForUpload(e) ==
    /\ e.category = "needsUpload"
    /\ e.hasRecord = e.hadRecord
    /\ e.after = e.before

\* C31, as stated: a document without checksum whose path has a record and a
\* file with a checksum other than the record's leaves the record unchanged
\* and is counted under needs upload.
C31_LocalChangeNeedsUpload ==
    FetchRan => \A k \in 1..Len(log) : LocallyChanged(log[k]) => FlaggedForUpload(log[k])

\* C31, amended: the same, unless the record already carries the document's
\* remote id and, like the document, no checksum; such a document is counted
\* under unchanged.  In both cases the record is left as it was.
C31_LocalChangeNeedsUploadUnlessCached ==
    FetchRan =>
        \A k \in 1..Len(log) :
            LocallyChanged(log[k]) =>
                /\ log[k].hasRecord = log[k].hadRecord
                /\ log[k].after = log[k].before
                /\ log[k].category =
                     IF AlreadyCached(log[k]) THEN "unchanged" ELSE "needsUpload"

\* C31 witness: a fetch has flagged a document of a locally changed file
\* whose record holds the checksum of the older content
C31_Witness ==
    /\ FetchRan
    /\ \E k \in 1..Len(log) :
        /\ LocallyChanged(log[k])
        /\ existingFiles[log[k].doc.displayName].checksum # Empty
        /\ log[k].category = "needsUpload"
        /\ log[k].hadRecord
        /\ log[k].after = existingFiles[log[k].doc.displayName]

\* when fetch read the catalog it held a record of the path of the document
\* of a log entry that is the record fetch makes from the document, but for
\* the remote id
DiffersInRemoteIdOnly(e) ==
    /\ e.doc.displayName \in DOMAIN existingFiles
    /\ existingFiles[e.doc.displayName].remoteID # e.doc.name
    /\ [existingFiles[e.doc.displayName] EXCEPT !.remoteID = e.doc.name] = FetchMeta(e.doc)

\* C32: a document whose record differs from it in the remote id only leaves
\* a record with the document's name as remote id and the checksum, size,
\* upload time and mime type it had, whatever the state of the file.
C32_RemoteIdOnlyUpdated ==
    FetchRan =>
        \A k \in 1..Len(log) :
            DiffersInRemoteIdOnly(log[k]) =>
                /\ log[k].hasRecord
                /\ log[k].after =
                     [existingFiles[log[k].doc.displayName] EXCEPT !.remoteID = log[k].doc.name]

\* the six counters of the summary of fetch
FetchCategories == {"added", "updated", "unchanged", "notFound", "needsUpload", "skipped"}

\* the categories in which fetch leaves the catalog as it is
FetchQuiet == {"unchanged", "skipped", "needsUpload"}

\* the documents of the log counted in a category
LoggedAs(c) == Cardinality({k \in 1..Len(log) : log[k].category = c})

RECURSIVE SumOver(_, _)
SumOver(t, cs) ==
    IF cs = {} THEN 0
    ELSE LET c == CHOOSE x \in cs : TRUE IN t[c] + SumOver(t, cs \ {c})

\* every document the loop has passed is in one category, and each counter
\* is the number of documents of its category; after the loop the counters
\* add up to the number of documents listed
FetchTallyExact ==
    (FetchRan /\ store # "") =>
        /\ \A k \in 1..Len(log) : log[k].category \in FetchCategories
        /\ \A c \in FetchCategories : tally[c] = LoggedAs(c)
        /\ SumOver(tally, FetchCategories) = Len(log)
        /\ Len(log) + Cardinality(docs) = Cardinality(startRemote)
        /\ {log[k].doc : k \in 1..Len(log)} \cup docs = startRemote
        /\ phase = "done" => SumOver(tally, FetchCategories) = Cardinality(startRemote)

\* a step of the loop that counts its document as unchanged, skipped or needs
\* upload leaves the catalog as it is
FetchQuietStep ==
    (phase = "fetch" /\ Len(log') = Len(log) + 1
        /\ log'[Len(log')].category \in FetchQuiet) => data' = data

\* C33: every listed document is counted in exactly one of added, updated,
\* unchanged, not found, needs upload and skipped, the six counts add up to
\* the number of listed documents, and a document counted unchanged, skipped
\* or needs upload changes nothing in the catalog.
C33_FetchTallyPartitions == []FetchTallyExact /\ [][FetchQuietStep]_vars

\* C33 witness: a fetch of two documents has ended with one of them skipped
\* and the other imported
C33_Witness ==
    /\ FetchRan
    /\ phase = "done"
    /\ store # ""
    /\ Cardinality(startRemote) = 2
    /\ tally["skipped"] = 1
    /\ tally["added"] = 1

\* the loop of clean or of delete by pattern has started
RemovalRan ==
    /\ lastCmd \in {"clean", "delete --pattern"}
    /\ phase \in {"clean", "deletePattern", "done"}
    /\ store # ""

\* the records of the store when the command started
RemovalRecords == GetAllFiles(startData, store)

\* the records the loop has passed, and those whose remote delete succeeded
RemovalTried == {log[k].record : k \in 1..Len(log)}

RemovalDeleted == {log[k].record : k \in {j \in 1..Len(log) : log[j].ok}}

\* the records the command set out to delete
RemovalTargets ==
    IF lastCmd = "clean" THEN {FilesMissingOnDisk(RemovalRecords)}
    ELSE {MatchedFiles(RemovalRecords, pattern) :
             pattern \in {q \in DeletePatterns : ~CompileFails(q)}}

\* C34: in clean and in delete by pattern a record is gone from the cache if
\* and only if the remote delete of its remote id succeeded; a record whose
\* delete failed stays as it was and is counted as failed, and every record
\* the command set out to delete is tried, whatever failed before.
C34_RemovedIffRemoteDeleted ==
    RemovalRan =>
        /\ \A f \in RemovalRecords :
            /\ ~FileFound(data, store, f.localPath) <=> f \in RemovalDeleted
            /\ f \notin RemovalDeleted => GetFileByPath(data, store, f.localPath) = f
        /\ tally["deleted"] = Cardinality(RemovalDeleted)
        /\ tally["failed"] = Cardinality(RemovalTried \ RemovalDeleted)
        /\ Len(log) = Cardinality(RemovalTried)
        /\ RemovalTried \cup toDelete \in RemovalTargets
        /\ phase = "done" => toDelete = {}

\* C34 witness: a delete by pattern has ended; the delete of the first record
\* failed, the record is still in the cache, and the second record was
\* deleted and removed after it
C34_Witness ==
    /\ RemovalRan
    /\ lastCmd = "delete --pattern"
    /\ phase = "done"
    /\ Len(log) = 2
    /\ ~log[1].ok
    /\ log[2].ok
    /\ FileFound(data, store, log[1].record.localPath)
    /\ ~FileFound(data, store, log[2].record.localPath)

\* the catalog file holds no record of the one store of the service
CacheBlind == saved.valid /\ GetAllFiles(saved.stores, StoreID) = {}

\* an upload command without --create, given a name that resolves, whose
\* listing of the documents succeeds, starts while the catalog holds no
\* record of the store and the store holds documents
BlindUploadStarts ==
    /\ CanStart
    /\ lastCmd' = "upload"
    /\ CacheBlind
    /\ remote # {}
    /\ \E param \in {q \in StoreParams : ResolveFound(q)}, dryRun \in BOOLEAN,
          flag \in 0..MaxParallelism,
          fl \in SeqsUpTo({p \in Paths : disk[p] # NoFile}, MaxJobs - used) :
        UploadStartWith(param, FALSE, dryRun, FALSE, flag, fl)

\* the command has returned the error; no file was discovered, no worker
\* started, no document uploaded or deleted, no store created in the catalog,
\* and the catalog file is as it was
UploadRefused ==
    /\ phase' = "done"
    /\ ret' = "local cache is empty"
    /\ files' = << >>
    /\ workers' = EmptyBag
    /\ calls' = << >>
    /\ remote' = remote
    /\ data' = saved.stores
    /\ ~StoreExists(data', StoreID) <=> ~StoreExists(saved.stores, StoreID)
    /\ saved' = saved

\* C35: without --create, when the catalog holds no record of the resolved
\* store (the store is absent from it or empty) and the listing of the remote
\* documents succeeds and is not empty, runUpload returns an error before any
\* file is discovered or uploaded, creates no local store and leaves the
\* catalog file as it is.
C35_BlindUploadRefused == [][BlindUploadStarts => UploadRefused]_vars

\* C35 witness: an upload was refused although the store exists in the
\* catalog, with no record, while the remote store holds a document
C35_Witness ==
    /\ lastCmd = "upload"
    /\ phase = "done"
    /\ ret = "local cache is empty"
    /\ CacheBlind
    /\ StoreExists(saved.stores, StoreID)
    /\ remote # {}
    /\ files = << >>

\* the loop of delete --id has started
DeleteIDsRan ==
    /\ lastCmd = "delete --id"
    /\ phase \in {"deleteIDs", "done"}
    /\ store # ""

\* the records of the store in the catalog when the command started
RecordsAtStart == GetAllFiles(startData, StoreID)

\* the documents the command has deleted
DeletedByID == {log[k].id : k \in {j \in 1..Len(log) : log[j].ok}}

\* C36: after delete --id has deleted a document, named in full or by its
\* short id, the cache of the store holds no record with the document as
\* remote id; the records of the documents it did not delete are as before.
C36_DeleteByIDKeepsCacheInStep ==
    DeleteIDsRan =>
        \A f \in RecordsAtStart :
            IF f.remoteID \in DeletedByID
            THEN ~FileFound(data, StoreID, f.localPath)
            ELSE GetFileByPath(data, StoreID, f.localPath) = f

\* the documents of the store with a display name
Namesakes(n) == {d \in remote : d.displayName = n}

\* no call of the upload tool is running, and every remote call of the calls
\* so far has succeeded
ToolCallsSucceeded == tool.pc = "done" /\ ~tool.failed

\* C37: after each of a sequence of calls of the upload tool, one after the
\* other, in which every remote call succeeded, a file name of which the
\* store held no document at the first call has at most one document, and
\* once a call for it has reported success exactly one, whose checksum
\* metadata is the checksum of the content of the last such call.
C37_OneDocumentPerName ==
    ToolCallsSucceeded =>
        \A n \in Paths :
            {d \in tool.origin : d.displayName = n} = {} =>
                IF tool.last[n] = Empty
                THEN Namesakes(n) = {}
                ELSE /\ Cardinality(Namesakes(n)) = 1
                     /\ \A d \in Namesakes(n) : GetDocumentChecksum(d) = tool.last[n]

\* C37 witness: two calls for one file name with differing contents have
\* succeeded; the second replaced the document of the first
C37_Witness ==
    /\ ToolCallsSucceeded
    /\ tool.requests = 2
    /\ tool.text = "Successfully updated"
    /\ {d \in tool.origin : d.displayName = tool.input.fileName} = {}
    /\ tool.existingDoc.name = DocName(1, 0)
    /\ tool.existingDoc.content # tool.content
    /\ Cardinality(Namesakes(tool.input.fileName)) = 1
    /\ \A d \in Namesakes(tool.input.fileName) :
        GetDocumentChecksum(d) = PrefixedChecksum(tool.content)

\* the catalog after call k of the log
AfterCall(k) == IF k < Len(log) THEN log[k + 1].before ELSE data

\* the records of a store with a local path
RecordsOf(d, name, path) == {f \in GetAllFiles(d, name) : f.localPath = path}

\* two catalogs agree on every store but one, and on every path of that store
\* but one
SameElsewhere(d, e, name, path) ==
    /\ \A s \in (DOMAIN d \cup DOMAIN e) \ {name} :
        s \in DOMAIN d /\ s \in DOMAIN e /\ d[s] = e[s]
    /\ name \in DOMAIN d =>
        \A q \in (DOMAIN d[name].files \cup DOMAIN e[name].files) \ {path} :
            FileFound(d, name, q) /\ FileFound(e, name, q)
                /\ GetFileByPath(d, name, q) = GetFileByPath(e, name, q)

\* AddFile: the record is found under its path, once; the store exists, was
\* created now if it did not, and its updated_at is now; nothing else changed
AddFileIsUpsert(e, after) ==
    /\ FileFound(after, e.name, e.path)
    /\ GetFileByPath(after, e.name, e.path) = e.meta
    /\ RecordsOf(after, e.name, e.path) = {e.meta}
    /\ DOMAIN after = DOMAIN e.before \cup {e.name}
    /\ after[e.name].updatedAt = e.now
    /\ after[e.name].name = e.name
    /\ after[e.name].createdAt =
         IF e.name \in DOMAIN e.before THEN e.before[e.name].createdAt ELSE e.now
    /\ SameElsewhere(e.before, after, e.name, e.path)
    /\ e.name \notin DOMAIN e.before => DOMAIN after[e.name].files = {e.path}

\* RemoveFile on an absent store or path returns false and changes nothing
RemoveFileAbsent(e, after) ==
    ~FileFound(e.before, e.name, e.path) => (~e.ok /\ after = e.before)

\* C38: AddFile(store, meta) leaves exactly one record of meta's local path,
\* which GetFileByPath returns and which is meta; it creates the store if it
\* did not exist, sets its updated_at, and leaves the records of the other
\* paths and the other stores as they were.  RemoveFile on a store or a path
\* that is absent returns false and changes nothing, updated_at included.
C38_AddFileUpserts ==
    lastCmd = "manager" =>
        \A k \in 1..Len(log) :
            IF log[k].op = "AddFile"
            THEN AddFileIsUpsert(log[k], AfterCall(k))
            ELSE RemoveFileAbsent(log[k], AfterCall(k))

\* C38 witness: a record was added to a new store, replaced by another record
\* of the same path, and a RemoveFile of a path the store does not hold
\* returned false
C38_Witness ==
    /\ lastCmd = "manager"
    /\ Len(log) = 3
    /\ log[1].op = "AddFile" /\ log[1].before = EmptyCatalog
    /\ log[2].op = "AddFile" /\ log[2].name = log[1].name
    /\ log[2].path = log[1].path /\ log[2].meta # log[1].meta
    /\ log[3].op = "RemoveFile" /\ log[3].name = log[1].name
    /\ log[3].path # log[1].path /\ ~log[3].ok
    /\ data = log[3].before
    /\ GetFileByPath(data, log[2].name, log[2].path) = log[2].meta

====
